---- MODULE Spec2Model ----
(***************************************************************************)
(* Model of the domain-availability MCP server:                            *)
(*   - HttpVerificationService (SSRF blocklist, manual redirect handling,  *)
(*     https -> http fallback, parking classification),                    *)
(*   - RdapService.checkDomain,                                            *)
(*   - the tool handlers of DomainMcpServer that merge registry, pricing,  *)
(*     aftermarket and HTTP signals into one status.                       *)
(* Strings of the program are TLA+ strings; a character is a string of     *)
(* length 1 obtained with SubSeq.                                          *)
(***************************************************************************)
EXTENDS Integers, Sequences, FiniteSets, TLC

(***************************************************************************)
(* String helpers (String.prototype.toLowerCase / includes / startsWith,   *)
(* RegExp anchors).                                                        *)
(***************************************************************************)
Ch(s, i) == SubSeq(s, i, i)

UpperChars == "ABCDEFGHIJKLMNOPQRSTUVWXYZ"
LowerChars == "abcdefghijklmnopqrstuvwxyz"
DigitChars == "0123456789"
HexChars == "0123456789abcdef"

\* index of the one-character string c in the string s, 0 when absent
IndexOf(c, s) ==
  IF \E i \in 1..Len(s) : Ch(s, i) = c
    THEN CHOOSE i \in 1..Len(s) : Ch(s, i) = c
    ELSE 0

LowerCh(c) ==
  IF IndexOf(c, UpperChars) = 0 THEN c ELSE Ch(LowerChars, IndexOf(c, UpperChars))

\* (the recursions over a string split it in halves, to keep them shallow)
RECURSIVE toLowerCase(_)
toLowerCase(s) ==
  IF Len(s) = 0 THEN ""
  ELSE IF Len(s) = 1 THEN LowerCh(s)
  ELSE toLowerCase(SubSeq(s, 1, Len(s) \div 2))
       \o toLowerCase(SubSeq(s, Len(s) \div 2 + 1, Len(s)))

\* the characters of s at the indices lo..hi that are in keep, in order
RECURSIVE Pick(_, _, _, _)
Pick(s, lo, hi, keep) ==
  IF lo > hi THEN ""
  ELSE IF lo = hi THEN (IF lo \in keep THEN Ch(s, lo) ELSE "")
  ELSE Pick(s, lo, (lo + hi) \div 2, keep) \o Pick(s, (lo + hi) \div 2 + 1, hi, keep)

Min(S) == CHOOSE x \in S : \A y \in S : x <= y
Max(S) == CHOOSE x \in S : \A y \in S : x >= y

StartsWith(s, p) == Len(s) >= Len(p) /\ SubSeq(s, 1, Len(p)) = p
EndsWith(s, p) == Len(s) >= Len(p) /\ SubSeq(s, Len(s) - Len(p) + 1, Len(s)) = p
Includes(s, p) ==
  \E i \in 1..(Len(s) + 1) : i + Len(p) - 1 <= Len(s) /\ SubSeq(s, i, i + Len(p) - 1) = p

IsDigit(c) == IndexOf(c, DigitChars) # 0
DigitVal(c) == IndexOf(c, DigitChars) - 1

(***************************************************************************)
(* HttpVerificationService.blockedPatterns, one operator per regular       *)
(* expression, in the order of the array.                                  *)
(***************************************************************************)
PatLocalhost(d) == toLowerCase(d) = "localhost"               \* /^localhost$/i
Pat127(d) == StartsWith(d, "127.")                            \* /^127\./
Pat10(d) == StartsWith(d, "10.")                              \* /^10\./
Pat192168(d) == StartsWith(d, "192.168.")                     \* /^192\.168\./
\* /^172\.(1[6-9]|2[0-9]|3[0-1])\./
Pat172(d) ==
  /\ StartsWith(d, "172.")
  /\ Len(d) >= 7
  /\ Ch(d, 7) = "."
  /\ \/ Ch(d, 5) = "1" /\ Ch(d, 6) \in {"6", "7", "8", "9"}
     \/ Ch(d, 5) = "2" /\ IsDigit(Ch(d, 6))
     \/ Ch(d, 5) = "3" /\ Ch(d, 6) \in {"0", "1"}
Pat169254(d) == StartsWith(d, "169.254.")                     \* /^169\.254\./
Pat0(d) == StartsWith(d, "0.")                                \* /^0\./
PatBracketLoopback(d) == StartsWith(d, "[::1]")               \* /^\[::1\]/
PatLoopback6(d) == d = "::1"                                  \* /^::1$/
PatFc00(d) == StartsWith(toLowerCase(d), "fc00:")             \* /^fc00:/i
PatFd00(d) == StartsWith(toLowerCase(d), "fd00:")             \* /^fd00:/i
PatFe80(d) == StartsWith(toLowerCase(d), "fe80:")             \* /^fe80:/i
PatMetadata(d) == Includes(toLowerCase(d), "metadata.google") \* /metadata\.google/i
PatInternal(d) == EndsWith(toLowerCase(d), ".internal")       \* /\.internal$/i

\* isBlockedDomain: blockedPatterns.some(pattern => pattern.test(domain))
isBlockedDomain(domain) ==
  \/ PatLocalhost(domain)
  \/ Pat127(domain)
  \/ Pat10(domain)
  \/ Pat192168(domain)
  \/ Pat172(domain)
  \/ Pat169254(domain)
  \/ Pat0(domain)
  \/ PatBracketLoopback(domain)
  \/ PatLoopback6(domain)
  \/ PatFc00(domain)
  \/ PatFd00(domain)
  \/ PatFe80(domain)
  \/ PatMetadata(domain)
  \/ PatInternal(domain)

(***************************************************************************)
(* types.ts: PARKING_PATTERNS.  Object.entries iterates brokers in         *)
(* insertion order, so the table is a sequence.                            *)
(***************************************************************************)
BrokerPatterns ==
  << [name |-> "sedo",
      patterns |-> <<"sedo.com/", "href=\"https://sedo.com", "Sedo.com", "powered by sedo">>],
     [name |-> "dan",
      patterns |-> <<"dan.com/", "href=\"https://dan.com", "Dan.com domain">>],
     [name |-> "afternic", patterns |-> <<"afternic.com/", "Afternic.com">>],
     [name |-> "godaddy",
      patterns |-> <<"godaddy.com/", "GoDaddy Auctions", "Get this domain at GoDaddy">>],
     [name |-> "namecheap", patterns |-> <<"namecheap.com/market", "Namecheap Marketplace">>],
     [name |-> "hugedomains", patterns |-> <<"hugedomains.com/", "HugeDomains.com">>],
     [name |-> "parkingcrew", patterns |-> <<"parkingcrew.com", "Powered by ParkingCrew">>],
     [name |-> "bodis", patterns |-> <<"bodis.com/", "Bodis.com">>] >>

ParkingIndicators ==
  << "This domain is for sale", "Buy this domain", "Make an offer on this domain",
     "Domain parking", "Premium domain for sale", "Get this domain", "Domain is for sale",
     "Inquire about this domain", "This domain may be for sale",
     "domain has been registered", "parked free", "Buy Now for" >>

\* The (broker, pattern) pairs in the order the nested for-loops visit them.
RECURSIVE FlattenBrokers(_)
FlattenBrokers(table) ==
  IF table = <<>> THEN <<>>
  ELSE [i \in 1..Len(Head(table).patterns) |->
          [broker |-> Head(table).name, pattern |-> Head(table).patterns[i]]]
       \o FlattenBrokers(Tail(table))

BrokerPairs == FlattenBrokers(BrokerPatterns)

(***************************************************************************)
(* ParkingDetection values.  An optional field that is undefined in the    *)
(* program is the empty string here (broker, estimatedPrice).              *)
(***************************************************************************)
NoBroker == ""
NoPrice == ""

\* The broker loops of checkUrlForParking / analyzeHtml: every matching pattern
\* overwrites broker and appends prefix + pattern + suffix.
RECURSIVE BrokerScan(_, _, _, _, _)
BrokerScan(textLower, pairs, prefix, suffix, acc) ==
  IF pairs = <<>> THEN acc
  ELSE IF Includes(textLower, toLowerCase(Head(pairs).pattern))
    THEN BrokerScan(textLower, Tail(pairs), prefix, suffix,
                    [broker |-> Head(pairs).broker,
                     indicators |-> Append(acc.indicators,
                                           prefix \o Head(pairs).pattern \o suffix)])
    ELSE BrokerScan(textLower, Tail(pairs), prefix, suffix, acc)

\* checkUrlForParking(url)
checkUrlForParking(url) ==
  LET scan == BrokerScan(toLowerCase(url), BrokerPairs, "URL contains ", "",
                         [broker |-> NoBroker, indicators |-> <<>>])
  IN [isParked |-> Len(scan.indicators) > 0,
      broker |-> scan.broker,
      indicators |-> scan.indicators,
      estimatedPrice |-> NoPrice,
      confidence |-> IF Len(scan.indicators) > 1 THEN "high" ELSE "medium"]

(***************************************************************************)
(* analyzeHtml(html)                                                       *)
(***************************************************************************)
MIN_DOMAIN_PRICE == 50
MAX_DOMAIN_PRICE == 1000000

IsSpace(c) == c \in {" ", "\n", "\t"}
IsDigitOrComma(c) == IsDigit(c) \/ c = ","

\* for (const indicator of PARKING_PATTERNS.indicators) ...
RECURSIVE IndicatorScan(_, _, _)
IndicatorScan(htmlLower, phrases, acc) ==
  IF phrases = <<>> THEN acc
  ELSE IndicatorScan(htmlLower, Tail(phrases),
         IF Includes(htmlLower, toLowerCase(Head(phrases)))
           THEN Append(acc, "Found \"" \o Head(phrases) \o "\"")
           ELSE acc)

\* first index >= i of s that is not matched by the character class, Len(s)+1 at the end
SkipWhile(s, i, class) ==
  LET stop == {j \in i..Len(s) :
                 ~((class = "space" /\ IsSpace(Ch(s, j)))
                   \/ (class = "num" /\ IsDigitOrComma(Ch(s, j))))}
  IN IF stop = {} THEN Len(s) + 1 ELSE Min(stop)

\* (?:\.\d{2})? at index j: the index after it
PriceTail(s, j) ==
  IF j + 2 <= Len(s) /\ Ch(s, j) = "." /\ IsDigit(Ch(s, j + 1)) /\ IsDigit(Ch(s, j + 2))
    THEN j + 3 ELSE j

\* The source file spells the third pattern with the three characters
\* U+00E2 U+201A U+00AC (the UTF-8 bytes of the euro sign read as Latin-1), not
\* with U+20AC.  Strings here are ASCII: "^", "_", "~" stand for those three
\* characters and "|" for the euro sign U+20AC itself.
EuroAsWritten == "^_~"
EuroSign == "|"

\* The four pricePatterns: a literal prefix, optional white space for the
\* USD / EUR forms, [\d,]+ and the optional cents.  ci: the /i flag.
PricePatternTable ==
  << [prefix |-> "$", spaces |-> FALSE, ci |-> FALSE],
     [prefix |-> "USD", spaces |-> TRUE, ci |-> TRUE],
     [prefix |-> EuroAsWritten, spaces |-> FALSE, ci |-> FALSE],
     [prefix |-> "EUR", spaces |-> TRUE, ci |-> TRUE] >>

\* end (exclusive) of a match of pattern pat starting at index i, 0 when none
PriceMatchEnd(s, i, pat) ==
  LET n == Len(pat.prefix)
      head == IF i + n - 1 <= Len(s) THEN SubSeq(s, i, i + n - 1) ELSE ""
      hit == IF pat.ci THEN toLowerCase(head) = toLowerCase(pat.prefix)
                       ELSE head = pat.prefix
      k == IF pat.spaces THEN SkipWhile(s, i + n, "space") ELSE i + n
      e == SkipWhile(s, k, "num")
  IN IF hit /\ e > k THEN PriceTail(s, e) ELSE 0

\* html.match(pattern) with the g flag: all matches, left to right, each search
\* resuming where the previous match ended
RECURSIVE PriceMatchesFrom(_, _, _, _)
PriceMatchesFrom(s, i, pat, starts) ==
  IF {j \in starts : j >= i} = {} THEN <<>>
  ELSE LET j == Min({k \in starts : k >= i})
       IN <<SubSeq(s, j, PriceMatchEnd(s, j, pat) - 1)>>
          \o PriceMatchesFrom(s, PriceMatchEnd(s, j, pat), pat, starts)

PriceMatches(s, i, pat) ==
  PriceMatchesFrom(s, i, pat, {j \in 1..Len(s) : PriceMatchEnd(s, j, pat) # 0})

\* match.replace(/[^0-9.]/g, '')
StripNonNumeric(m) ==
  Pick(m, 1, Len(m), {i \in 1..Len(m) : IsDigit(Ch(m, i)) \/ Ch(m, i) = "."})

RECURSIVE DigitsValue(_, _)
DigitsValue(t, acc) ==
  IF Len(t) = 0 \/ ~IsDigit(Ch(t, 1)) THEN acc
  ELSE DigitsValue(SubSeq(t, 2, Len(t)), acc * 10 + DigitVal(Ch(t, 1)))

\* parseFloat of the stripped text, in hundredths; -1 stands for NaN
ParseCents(t) ==
  LET dot == IndexOf(".", t)
      int == IF dot = 0 THEN t ELSE SubSeq(t, 1, dot - 1)
      frac == IF dot = 0 THEN "" ELSE SubSeq(t, dot + 1, Len(t))
  IN IF Len(int) = 0 THEN -1
     ELSE DigitsValue(int, 0) * 100
          + (IF Len(frac) >= 2 THEN DigitsValue(SubSeq(frac, 1, 2), 0) ELSE 0)

\* a price filter that accepts every amount; against it C16_PriceInBand fails
AnyPriceInBand(match) == TRUE

InPriceBand(match) ==
  LET cents == ParseCents(StripNonNumeric(match))
  IN cents >= MIN_DOMAIN_PRICE * 100 /\ cents <= MAX_DOMAIN_PRICE * 100

\* for (const match of matches) { if in band { ...; break } }: the first in-band match
RECURSIVE FirstInBand(_)
FirstInBand(matches) ==
  IF matches = <<>> THEN NoPrice
  ELSE IF InPriceBand(Head(matches)) THEN Head(matches)
  ELSE FirstInBand(Tail(matches))

\* for (const pattern of pricePatterns) ...
\* estimatedPrice = match; indicators.push(`Price detected: ${match}`)
PriceFound(acc, hit) ==
  IF hit = NoPrice THEN acc
  ELSE [estimatedPrice |-> hit,
        indicators |-> Append(acc.indicators, "Price detected: " \o hit)]

RECURSIVE PriceScan(_, _, _)
PriceScan(html, pats, acc) ==
  IF pats = <<>> THEN acc
  ELSE PriceScan(html, Tail(pats),
                 PriceFound(acc, FirstInBand(PriceMatches(html, 1, Head(pats)))))

\* html.replace(/<[^>]*>/g, '')
\* Index i lies inside a match of /<[^>]*>/g iff a ">" follows at or after i and
\* a "<" lies between the last ">" before i and i.
InTag(s, i, closers) ==
  LET before == {k \in closers : k < i}
      p == IF before = {} THEN 0 ELSE Max(before)
  IN /\ \E k \in closers : k >= i
     /\ \E j \in (p + 1)..i : Ch(s, j) = "<"

StripTags(s) ==
  LET closers == {k \in 1..Len(s) : Ch(s, k) = ">"}
  IN Pick(s, 1, Len(s), {i \in 1..Len(s) : ~InTag(s, i, closers)})

\* textContent.trim().split(/\s+/).length
\* (the pieces are the maximal runs of non-space characters; an empty text
\* splits into one empty piece)
WordCount(textContent) ==
  LET starts == {i \in 1..Len(textContent) :
                   /\ ~IsSpace(Ch(textContent, i))
                   /\ (i = 1 \/ IsSpace(Ch(textContent, i - 1)))}
  IN IF starts = {} THEN 1 ELSE Cardinality(starts)

MINIMAL_WORDS == 50

\* an end of analyzeHtml without the minimal-content indicator; against it
\* C37_EveryIndicatorCounts fails
ParkingVerdictNoMinimal(broker, p, wordCount) ==
  [isParked |-> Len(p.indicators) >= 2 \/ broker # NoBroker,
   broker |-> broker,
   indicators |-> p.indicators,
   estimatedPrice |-> p.estimatedPrice,
   confidence |-> IF broker # NoBroker /\ Len(p.indicators) >= 3 THEN "high"
                  ELSE IF Len(p.indicators) >= 2 THEN "medium"
                  ELSE "low"]

\* the end of analyzeHtml: the minimal-content indicator, the confidence and
\* the object returned, from the broker found, the indicators and price
\* collected (p) and the word count of the text content
ParkingVerdict(broker, p, wordCount) ==
  LET indicators == IF wordCount < MINIMAL_WORDS /\ Len(p.indicators) > 0
                      THEN Append(p.indicators, "Minimal page content")
                      ELSE p.indicators
      confidence == IF broker # NoBroker /\ Len(indicators) >= 3 THEN "high"
                    ELSE IF Len(indicators) >= 2 THEN "medium"
                    ELSE "low"
  IN [isParked |-> Len(indicators) >= 2 \/ broker # NoBroker,
      broker |-> broker,
      indicators |-> indicators,
      estimatedPrice |-> p.estimatedPrice,
      confidence |-> confidence]

\* analyzeHtml after its broker loop left b = (broker, indicators)
AnalyzeAfterBrokers(html, htmlLower, b) ==
  ParkingVerdict(b.broker,
                 PriceScan(html, PricePatternTable,
                           [estimatedPrice |-> NoPrice,
                            indicators |-> IndicatorScan(htmlLower, ParkingIndicators,
                                                         b.indicators)]),
                 WordCount(StripTags(html)))

analyzeHtml(html) ==
  AnalyzeAfterBrokers(html, toLowerCase(html),
                      BrokerScan(toLowerCase(html), BrokerPairs, "Found \"", "\" in page",
                                 [broker |-> NoBroker, indicators |-> <<>>]))

(***************************************************************************)
(* URLs.  A URL is [scheme, host, path]; `new URL(location, url)` resolves *)
(* an absolute Location to its own scheme/host/path (the host lower-cased, *)
(* an IPv6 literal keeping its brackets in .hostname) and a relative one   *)
(* against the current URL.                                                *)
(***************************************************************************)
MkUrl(scheme, host, path) == [scheme |-> scheme, host |-> host, path |-> path]
UrlToString(u) == u.scheme \o "://" \o u.host \o u.path
UrlHostname(hostText) == toLowerCase(hostText)

NoLocation == [kind |-> "none", scheme |-> "", host |-> "", path |-> ""]
BadLocation == [kind |-> "invalid", scheme |-> "", host |-> "", path |-> ""]
AbsLocation(scheme, host, path) ==
  [kind |-> "abs", scheme |-> scheme, host |-> host, path |-> path]
RelLocation(path) == [kind |-> "rel", scheme |-> "", host |-> "", path |-> path]

ResolveUrl(location, url) ==
  IF location.kind = "abs"
    THEN MkUrl(location.scheme, UrlHostname(location.host), location.path)
    ELSE MkUrl(url.scheme, url.host, location.path)

(***************************************************************************)
(* HttpVerificationResult.  parkingDetection is a sequence of length 0 or  *)
(* 1 (absent / present); httpStatus 0 and redirectUrl "" mean undefined.   *)
(***************************************************************************)
NoHttpStatus == 0
NoRedirectUrl == ""

MkResult(status, pd, httpStatus, redirectUrl) ==
  [status |-> status, parkingDetection |-> pd,
   httpStatus |-> httpStatus, redirectUrl |-> redirectUrl]

Unknown == MkResult("unknown", <<>>, NoHttpStatus, NoRedirectUrl)

(***************************************************************************)
(* What the network answers to one fetchIPv4 call (the environment).       *)
(***************************************************************************)
ErrorResponse(message) ==
  [kind |-> "error", message |-> message, status |-> 0, location |-> NoLocation,
   contentType |-> "", readable |-> FALSE, body |-> ""]
RedirectResponse(status, location) ==
  [kind |-> "response", message |-> "", status |-> status, location |-> location,
   contentType |-> "", readable |-> FALSE, body |-> ""]
ContentResponse(status, contentType, readable, body) ==
  [kind |-> "response", message |-> "", status |-> status, location |-> NoLocation,
   contentType |-> contentType, readable |-> readable, body |-> body]

\* One step of tryFetch is either a returned result or a recursive call on the
\* redirect target.  why: which return statement was taken.
Return(result, why) ==
  [tag |-> "return", result |-> result, url |-> MkUrl("", "", ""), why |-> why]
Follow(url) == [tag |-> "follow", result |-> Unknown, url |-> url, why |-> "redirect"]

\* a catch that reads a failed connection as "nobody owns the domain"; against
\* it C4_FailuresResolveUnknown fails
CatchAsAvailable(errorMessage) == MkResult("available", <<>>, NoHttpStatus, NoRedirectUrl)

\* catch (error) { ... }: every branch of the chain returns { status: 'unknown' }
CatchResult(errorMessage) ==
  IF \/ Includes(errorMessage, "ENOTFOUND")
     \/ Includes(errorMessage, "EAI_AGAIN")
     \/ Includes(errorMessage, "getaddrinfo")
    THEN Unknown
  ELSE IF Includes(errorMessage, "ECONNREFUSED") /\ Includes(errorMessage, "::1")
    THEN Unknown
  ELSE IF \/ Includes(errorMessage, "ECONNREFUSED")
          \/ Includes(errorMessage, "ETIMEDOUT")
          \/ Includes(errorMessage, "ECONNRESET")
          \/ Includes(errorMessage, "abort")
    THEN Unknown
  ELSE IF \/ Includes(errorMessage, "SSL")
          \/ Includes(errorMessage, "certificate")
          \/ Includes(errorMessage, "CERT")
    THEN Unknown
  ELSE Unknown

(***************************************************************************)
(* The environment of the prober: the domains probed and the Location      *)
(* headers servers answer with.  isBlockedDomain and checkUrlForParking    *)
(* are functions of the host name / URL alone, so their values on the      *)
(* hosts and URLs of the environment are tabulated once.                   *)
(***************************************************************************)
ProbeDomains ==
  {"example.com", "shop.example", "127.0.0.1", "10.0.0.8", "localhost",
   "metadata.google.internal"}

Schemes == {"https", "http"}
Paths == {"/", "/lander", "/latest/meta-data/"}

Locations ==
  {NoLocation, BadLocation, RelLocation("/lander"),
   AbsLocation("https", "www.example.com", "/"),
   AbsLocation("http", "example.com", "/"),
   AbsLocation("https", "sedo.com", "/"),
   AbsLocation("http", "169.254.169.254", "/latest/meta-data/"),
   AbsLocation("http", "LOCALHOST", "/"),
   AbsLocation("http", "[::1]", "/"),
   AbsLocation("http", "[fe80::1]", "/")}

KnownHosts == ProbeDomains \cup {UrlHostname(l.host) : l \in {x \in Locations : x.kind = "abs"}}
KnownUrls == {UrlToString(MkUrl(sc, h, pa)) : sc \in Schemes, h \in KnownHosts, pa \in Paths}

\* (f @@ <<>> is f, written out as an explicit table)
BlockedOfHost == [h \in KnownHosts |-> isBlockedDomain(h)] @@ <<>>
ParkingOfUrl == [u \in KnownUrls |-> checkUrlForParking(u)] @@ <<>>

\* a prober that consults no blocklist; against it C1_BlockedDomainNoNetwork fails
IsBlockedNever(host) == FALSE

IsBlocked(host) == BlockedOfHost[host]
UrlParking(url) == ParkingOfUrl[url]

\* a tryFetch without the check of the redirect target; against it
\* C2_BlockedRedirectEndsAttempt fails
RedirectNeverBlocked(redirectUrl) == FALSE

\* if (this.isBlockedDomain(redirectUrl.hostname)) return { status: 'unknown' }
RedirectBlocked(redirectUrl) == IsBlocked(redirectUrl.host)

\* a fast path that reports parked and drops the evidence; against it
\* C14_EvidenceIffParked fails
RedirectResultBare(response, redirectUrl, redirectParkingCheck) ==
  IF RedirectBlocked(redirectUrl) THEN Return(Unknown, "blocked")
  ELSE IF redirectParkingCheck.isParked
    THEN Return(MkResult("parked", <<>>, response.status, UrlToString(redirectUrl)),
                "fastpath")
  ELSE Follow(redirectUrl)

\* a tryFetch that reports the refused redirect (the 3xx code and the target);
\* against it C29_BlockedAsUnreachable fails
RedirectResultTellsBlocked(response, redirectUrl, redirectParkingCheck) ==
  IF RedirectBlocked(redirectUrl)
    THEN Return(MkResult("unknown", <<>>, response.status, UrlToString(redirectUrl)),
                "blocked")
  ELSE IF redirectParkingCheck.isParked
    THEN Return(MkResult("parked", <<redirectParkingCheck>>, response.status,
                         UrlToString(redirectUrl)), "fastpath")
  ELSE Follow(redirectUrl)

\* the 3xx branch of tryFetch once the Location header parsed to redirectUrl
RedirectResult(response, redirectUrl, redirectParkingCheck) ==
  IF RedirectBlocked(redirectUrl) THEN Return(Unknown, "blocked")
  ELSE IF redirectParkingCheck.isParked
    THEN Return(MkResult("parked", <<redirectParkingCheck>>, response.status,
                         UrlToString(redirectUrl)), "fastpath")
  ELSE Follow(redirectUrl)

\* the 3xx branch of tryFetch
HandleRedirect(url, response) ==
  IF response.location.kind = "none" THEN Return(Unknown, "nolocation")
  ELSE IF response.location.kind = "invalid" THEN Return(Unknown, "badlocation")
  ELSE RedirectResult(response, ResolveUrl(response.location, url),
                      UrlParking(UrlToString(ResolveUrl(response.location, url))))

(***************************************************************************)
(* The response bodies the environment serves.  analyzeHtml is a function  *)
(* of the body alone, so its value on each body is tabulated once.         *)
(***************************************************************************)
RECURSIVE Words(_)
Words(n) == IF n = 0 THEN "" ELSE IF n = 1 THEN "w " ELSE Words(n \div 2) \o Words(n - n \div 2)

\* number of words of the pages that carry real content
SiteWords == 60

BodySite == "<html><body><p>" \o Words(SiteWords) \o "</p></body></html>"
BodyOneHint == "<html><body><p>" \o Words(SiteWords) \o "parked free</p></body></html>"
BodyBroker == "<a href=\"https://sedo.com/buy\">Buy this domain</a>"
BodyParked == "<h1>This domain is for sale</h1> Inquire about this domain"
Bodies == {BodySite, BodyOneHint, BodyBroker, BodyParked, ""}


AnalysisOfBody == [b \in Bodies |-> analyzeHtml(b)] @@ <<>>

\* readResponseWithLimit: null (here <<>>) when there is no reader or a read throws
readResponseWithLimit(response) ==
  IF response.readable THEN <<response.body>> ELSE <<>>

\* a content branch that never looks at the classification; against it
\* C12_BodyClassification fails
ContentAlwaysTaken(response, parkingDetection) ==
  Return(MkResult("taken", <<>>, response.status, NoRedirectUrl), "content")

\* the content branch of tryFetch, html being what was read (null: <<>>) and
\* parkingDetection what analyzeHtml made of it (not run: <<>>)
ContentResult(response, parkingDetection) ==
  IF parkingDetection # <<>> /\ parkingDetection[1].isParked
    THEN Return(MkResult(IF parkingDetection[1].broker # NoBroker THEN "for_sale"
                         ELSE "parked",
                         parkingDetection, response.status, NoRedirectUrl), "classified")
    ELSE Return(MkResult("taken", <<>>, response.status, NoRedirectUrl), "content")

\* if (html) { parkingDetection = this.analyzeHtml(html) }
AnalyzeRead(html) ==
  IF html # <<>> /\ html[1] # "" THEN <<AnalysisOfBody[html[1]]>> ELSE <<>>

\* what analyzeHtml made of the body of `response` (<<>>: the body was not
\* analysed: not text/html, not readable, or empty)
BodyAnalysis(response) ==
  AnalyzeRead(IF Includes(response.contentType, "text/html")
                THEN readResponseWithLimit(response) ELSE <<>>)

HandleContent(response) == ContentResult(response, BodyAnalysis(response))

\* the body of tryFetch after its fetchIPv4 call answered `response`
TryFetchStep(url, response) ==
  IF response.kind = "error" THEN Return(CatchResult(response.message), "error")
  ELSE IF response.status >= 300 /\ response.status < 400 THEN HandleRedirect(url, response)
  ELSE HandleContent(response)

MAX_REDIRECTS == 5

(***************************************************************************)
(* State.                                                                  *)
(*  Prober (one verifyDomain call at a time):                              *)
(*   vpc           "idle", "https" / "http" (a scheme attempt is waiting   *)
(*                 for its next fetch), "done" (verifyDomain returned)     *)
(*   vdomain       the argument of verifyDomain                            *)
(*   vurl          the url argument of the pending tryFetch call           *)
(*   redirectCount the redirectCount argument of the pending tryFetch call *)
(*   vresult       the value verifyDomain returned                         *)
(*  History of the current verifyDomain call:                              *)
(*   netCalls      number of fetchIPv4 calls issued                        *)
(*   reqBlocked    fetchIPv4 was called on a URL whose hostname            *)
(*                 isBlockedDomain matches                                 *)
(*   att           per scheme attempt: ran, its outcome (sequence of       *)
(*                 length 0 or 1), the return statement that ended it, the *)
(*                 number of fetches it issued, and whether it received a  *)
(*                 3xx whose resolved Location has a hostname that         *)
(*                 isBlockedDomain matches                                 *)
(*   seen          what the last fetch of the call was answered with: its  *)
(*                 kind ("none", "error", "redirect", "content"), for a    *)
(*                 content answer what analyzeHtml made of the body, for a *)
(*                 redirect its status and what checkUrlForParking made of *)
(*                 the resolved Location                                   *)
(***************************************************************************)
VARIABLES vpc, vdomain, vurl, redirectCount, vresult,
          netCalls, reqBlocked, att, seen

probeVars ==
  <<vpc, vdomain, vurl, redirectCount, vresult, netCalls, reqBlocked, att, seen>>

\* the blocklist check on its own (described with its actions below)
VARIABLES bvia, bhost, bverdict

blockVars == <<bvia, bhost, bverdict>>

\* analyzeHtml on its own (described with its action below)
VARIABLES cmode, cinput, cevidence

classVars == <<cmode, cinput, cevidence>>

\* verifyBulk on its own (described with its actions below)
VARIABLES bulkPc, bulkDomains, chunkIdx, inFlight, chunkResults, results, bulkHist

bulkVars == <<bulkPc, bulkDomains, chunkIdx, inFlight, chunkResults, results, bulkHist>>

\* the tool handlers (described with their actions below)
VARIABLES server, hpc, tool, args, normalizedDomain, hresult, isError, hist, search

serverVars == <<server, hpc, tool, args, normalizedDomain, hresult, isError, hist, search>>

\* two lookup_domain calls in a row (described with their actions below)
VARIABLES world, prev, providerCache

repeatVars == <<world, prev, providerCache>>

\* one hop of tryFetch with its timer (described with its actions below)
VARIABLES dpc, timer, clock, dchunks, dresult

deadlineVars == <<dpc, timer, clock, dchunks, dresult>>

\* one searchListings call of the auctions provider (described with its actions below)
VARIABLES pager

pageVars == <<pager>>

\* verifyDomain with the record of its failed fetch (described with its actions below)
VARIABLES failedFetch

retryVars == <<failedFetch>>


NoUrl == MkUrl("", "", "")
NoSeen ==
  [kind |-> "none", analysis |-> <<>>, status |-> 0, target |-> NoUrl, urlCheck |-> <<>>,
   contentType |-> "", bodyRead |-> FALSE]

\* what the answer `response` to the fetch of `url` showed
SeenOf(url, response) ==
  IF response.kind = "error" THEN [NoSeen EXCEPT !.kind = "error"]
  ELSE IF response.status >= 300 /\ response.status < 400
    THEN IF response.location.kind \in {"abs", "rel"}
           THEN [NoSeen EXCEPT
                   !.kind = "redirect", !.status = response.status,
                   !.target = ResolveUrl(response.location, url),
                   !.urlCheck = <<UrlParking(UrlToString(ResolveUrl(response.location, url)))>>]
           ELSE [NoSeen EXCEPT !.kind = "redirect", !.status = response.status]
  ELSE [NoSeen EXCEPT !.kind = "content", !.analysis = BodyAnalysis(response),
                      !.status = response.status,
                      !.contentType = response.contentType,
                      !.bodyRead = Includes(response.contentType, "text/html")]

NoAttempt == [ran |-> FALSE, out |-> <<>>, last |-> "none", calls |-> 0, sawBlocked |-> FALSE]

ProbeInit ==
  /\ vpc = "idle"
  /\ vdomain = ""
  /\ vurl = NoUrl
  /\ redirectCount = 0
  /\ vresult = Unknown
  /\ netCalls = 0
  /\ reqBlocked = FALSE
  /\ att = [s \in {"https", "http"} |-> NoAttempt]
  /\ seen = NoSeen

\* a verifyDomain that retries over http:// whatever https:// gave; against it
\* C10_HttpsFirstThenHttp fails
AlwaysFallback(result) == TRUE

\* if (result.status === 'unknown') result = await this.tryFetch(`http://${domain}`)
NeedsFallback(result) == result.status = "unknown"

\* verifyDomain(domain) up to its first await
VerifyDomainStart(domain) ==
  /\ vdomain' = domain
  /\ netCalls' = 0
  /\ reqBlocked' = FALSE
  /\ redirectCount' = 0
  /\ seen' = NoSeen
  /\ IF IsBlocked(domain)
       THEN /\ vpc' = "done"
            /\ vresult' = Unknown
            /\ vurl' = NoUrl
            /\ att' = [s \in {"https", "http"} |-> NoAttempt]
       ELSE /\ vpc' = "https"
            /\ vresult' = Unknown
            /\ vurl' = MkUrl("https", domain, "/")
            /\ att' = [https |-> [NoAttempt EXCEPT !.ran = TRUE], http |-> NoAttempt]

\* a tryFetch chain returned `result` to verifyDomain: fall back to http:// or return
AttemptReturn(result, why, calls, sawBlocked) ==
  /\ redirectCount' = 0
  /\ IF vpc = "https" /\ NeedsFallback(result)
       THEN /\ vpc' = "http"
            /\ vurl' = MkUrl("http", vdomain, "/")
            /\ vresult' = vresult
            /\ att' = [https |-> [ran |-> TRUE, out |-> <<result>>, last |-> why,
                                  calls |-> calls, sawBlocked |-> sawBlocked],
                       http |-> [NoAttempt EXCEPT !.ran = TRUE]]
       ELSE /\ vpc' = "done"
            /\ vurl' = NoUrl
            /\ vresult' = result
            /\ att' = [att EXCEPT ![vpc] = [ran |-> TRUE, out |-> <<result>>, last |-> why,
                                            calls |-> calls, sawBlocked |-> sawBlocked]]

\* the blocklist matches the host name (read from the table of the known hosts)
BlockedHostname(host) ==
  BlockedOfHost[host]

\* `response` is a 3xx whose Location, resolved against url, has a hostname that
\* the blocklist matches
BlockedTarget(url, response) ==
  /\ response.kind = "response"
  /\ response.status >= 300 /\ response.status < 400
  /\ response.location.kind \in {"abs", "rel"}
  /\ BlockedHostname(ResolveUrl(response.location, url).host)

\* tryFetch entered with redirectCount >= MAX_REDIRECTS: no fetch is issued
TryFetchLimit ==
  /\ vpc \in {"https", "http"}
  /\ redirectCount >= MAX_REDIRECTS
  /\ AttemptReturn(Unknown, "limit", att[vpc].calls, att[vpc].sawBlocked)
  /\ UNCHANGED <<vdomain, netCalls, reqBlocked, seen>>
  /\ UNCHANGED <<blockVars, classVars, bulkVars, serverVars, repeatVars, deadlineVars, pageVars, retryVars>>

\* tryFetch entered with redirectCount < MAX_REDIRECTS: one fetchIPv4 call and
\* everything tryFetch does with its answer
TryFetchHop(response) ==
  /\ vpc \in {"https", "http"}
  /\ redirectCount < MAX_REDIRECTS
  /\ netCalls' = netCalls + 1
  /\ reqBlocked' = (reqBlocked \/ BlockedHostname(vurl.host))
  /\ seen' = SeenOf(vurl, response)
  /\ \E step \in {TryFetchStep(vurl, response)},
        saw \in {att[vpc].sawBlocked \/ BlockedTarget(vurl, response)} :
        IF step.tag = "follow"
          THEN /\ vurl' = step.url
               /\ redirectCount' = redirectCount + 1
               /\ att' = [att EXCEPT ![vpc].last = "redirect",
                                     ![vpc].calls = att[vpc].calls + 1,
                                     ![vpc].sawBlocked = saw]
               /\ UNCHANGED <<vpc, vresult>>
          ELSE AttemptReturn(step.result, step.why, att[vpc].calls + 1, saw)
  /\ UNCHANGED vdomain

\* the caller took the result
VerifyDomainDone ==
  /\ vpc = "done"
  /\ vpc' = "idle"
  /\ UNCHANGED <<vdomain, vurl, redirectCount, vresult, netCalls, reqBlocked, att, seen>>
  /\ UNCHANGED <<blockVars, classVars, bulkVars, serverVars, repeatVars, deadlineVars, pageVars, retryVars>>

(***************************************************************************)
(* The answers of the network.                                             *)
(***************************************************************************)
ErrorMessages ==
  {"getaddrinfo ENOTFOUND example.com", "connect ECONNREFUSED ::1:443",
   "connect ECONNREFUSED 93.184.216.34:443", "This operation was aborted",
   "unable to verify the first certificate", "read ECONNRESET", "socket hang up"}

ContentTypes ==
  {"text/html; charset=utf-8", "TEXT/HTML", "application/json",
   "multipart/related; type=\"text/html\"", ""}

Responses ==
  {ErrorResponse(m) : m \in ErrorMessages}
  \cup {RedirectResponse(c, l) : c \in {301, 302}, l \in Locations}
  \cup {ContentResponse(c, t, r, b) :
          c \in {200, 404}, t \in ContentTypes, r \in BOOLEAN, b \in Bodies}

VerifyDomainCall ==
  /\ vpc = "idle"
  /\ \E d \in ProbeDomains : VerifyDomainStart(d)
  /\ UNCHANGED <<blockVars, classVars, bulkVars, serverVars, repeatVars, deadlineVars, pageVars, retryVars>>

FetchAnswered ==
  /\ \E response \in Responses : TryFetchHop(response)
  /\ UNCHANGED <<blockVars, classVars, bulkVars, serverVars, repeatVars, deadlineVars, pageVars, retryVars>>

ProbeNext ==
  \/ VerifyDomainCall
  \/ FetchAnswered
  \/ TryFetchLimit
  \/ VerifyDomainDone

(***************************************************************************)
(* verifyDomain with a record of the fetch that threw (SpecRetry): the     *)
(* actions of the prober, and                                              *)
(*   failedFetch  the URL of the fetchIPv4 call that threw in the https:// *)
(*                attempt of the current verifyDomain call (NoUrl: none)   *)
(***************************************************************************)
RetryIdle == failedFetch = NoUrl

RetryCall ==
  /\ vpc = "idle"
  /\ \E d \in ProbeDomains : VerifyDomainStart(d)
  /\ failedFetch' = NoUrl
  /\ UNCHANGED <<blockVars, classVars, bulkVars, serverVars, repeatVars, deadlineVars, pageVars>>

RetryFetch ==
  /\ \E response \in Responses :
       /\ TryFetchHop(response)
       /\ failedFetch' = IF vpc = "https" /\ response.kind = "error" THEN vurl
                         ELSE failedFetch
  /\ UNCHANGED <<blockVars, classVars, bulkVars, serverVars, repeatVars, deadlineVars, pageVars>>

RetryNext == RetryCall \/ RetryFetch \/ TryFetchLimit \/ VerifyDomainDone

(***************************************************************************)
(* The blocklist on its own: isBlockedDomain applied where the code applies *)
(* it, to the domain argument of verifyDomain as given (line 57) and to     *)
(* the hostname of a parsed redirect URL (line 110).                        *)
(*   bvia      "none", or the call site that ran last: "start", "redirect"  *)
(*   bhost     the string handed to isBlockedDomain                         *)
(*   bverdict  what isBlockedDomain returned                                *)
(***************************************************************************)
BlockInit == bvia = "none" /\ bhost = "" /\ bverdict = FALSE

\* decimal text of a natural number
RECURSIVE ToDec(_)
ToDec(n) ==
  IF n < 10 THEN Ch(DigitChars, n + 1)
  ELSE ToDec(n \div 10) \o Ch(DigitChars, (n % 10) + 1)

FirstOctets == {0, 9, 10, 11, 126, 127, 128, 169, 172, 192, 193}
SecondOctets == {0, 15, 16, 31, 32, 168, 169, 254, 255}
Ipv4Hosts == {ToDec(a) \o "." \o ToDec(b) \o ".0.1" : a \in FirstOctets, b \in SecondOctets}

FirstHextets ==
  {"fe80", "FE80", "fe81", "fe90", "febf", "fec0", "fe7f",
   "fc00", "fc01", "fcff", "fd00", "fd12", "fdff", "fe00", "fbff", "2001"}
Ipv6Tails == {"::1", ":1::2"}
Ipv6Addresses == {h \o t : h \in FirstHextets, t \in Ipv6Tails} \cup {"::1", "::2"}

HostNames ==
  {"localhost", "LOCALHOST", "localhost.example.com", "metadata.google.internal",
   "Metadata.Google.Internal", "db.internal", "DB.INTERNAL", "internal.example.com",
   "example.com", "shop.example"}

\* what a caller can pass to verifyDomain
StartHosts == Ipv4Hosts \cup Ipv6Addresses \cup {"[" \o a \o "]" : a \in Ipv6Addresses}
              \cup HostNames
\* the host part of an absolute Location header: an IPv6 literal is bracketed
LocationHosts == Ipv4Hosts \cup {"[" \o a \o "]" : a \in Ipv6Addresses} \cup HostNames

\* if (this.isBlockedDomain(domain)) in verifyDomain
BlockCheckStart ==
  /\ bvia = "none"
  /\ \E d \in StartHosts :
       /\ bvia' = "start"
       /\ bhost' = d
       /\ bverdict' = isBlockedDomain(d)
  /\ UNCHANGED <<probeVars, classVars, bulkVars, serverVars, repeatVars, deadlineVars, pageVars, retryVars>>

\* if (this.isBlockedDomain(redirectUrl.hostname)) in tryFetch
BlockCheckRedirect ==
  /\ bvia = "none"
  /\ \E text \in LocationHosts :
       /\ bvia' = "redirect"
       /\ bhost' = UrlHostname(text)
       /\ bverdict' = isBlockedDomain(UrlHostname(text))
  /\ UNCHANGED <<probeVars, classVars, bulkVars, serverVars, repeatVars, deadlineVars, pageVars, retryVars>>

BlockNext == BlockCheckStart \/ BlockCheckRedirect

(***************************************************************************)
(* The address classes the blocklist is documented to cover, decided from  *)
(* the address a hostname denotes and not from its spelling.               *)
(***************************************************************************)
\* the text inside the brackets of a bracketed IPv6 literal, else the text itself
Unbracketed(h) ==
  IF Len(h) >= 2 /\ Ch(h, 1) = "[" /\ Ch(h, Len(h)) = "]"
    THEN SubSeq(h, 2, Len(h) - 1) ELSE h

\* the four numbers of a dotted quad, <<>> when h is not one
DottedQuad(h) ==
  LET dots == {i \in 1..Len(h) : Ch(h, i) = "."}
      cut(k) == IF k = 0 THEN 0
                ELSE IF k = 4 THEN Len(h) + 1
                ELSE CHOOSE i \in dots : Cardinality({d \in dots : d <= i}) = k
      part(k) == SubSeq(h, cut(k - 1) + 1, cut(k) - 1)
      isNumber(t) == Len(t) \in 1..3 /\ \A i \in 1..Len(t) : IsDigit(Ch(t, i))
  IN IF Cardinality(dots) = 3
          /\ \A k \in 1..4 : isNumber(part(k)) /\ DigitsValue(part(k), 0) <= 255
       THEN [k \in 1..4 |-> DigitsValue(part(k), 0)]
       ELSE <<>>

RECURSIVE HexValue(_, _)
HexValue(t, acc) ==
  IF Len(t) = 0 THEN acc
  ELSE HexValue(SubSeq(t, 2, Len(t)), acc * 16 + IndexOf(Ch(t, 1), HexChars) - 1)

\* the value of the first 16-bit group of an IPv6 literal, -1 when h is not one
\* (a literal that starts with "::" has first group 0)
FirstGroup(h) ==
  LET colon == IndexOf(":", h)
      head == toLowerCase(SubSeq(h, 1, colon - 1))
  IN IF colon = 0 THEN -1
     ELSE IF colon = 1 THEN 0
     ELSE IF Len(head) <= 4 /\ \A i \in 1..Len(head) : IndexOf(Ch(head, i), HexChars) # 0
       THEN HexValue(head, 0)
     ELSE -1

InIpv4Classes(q) ==
  /\ q # <<>>
  /\ \/ q[1] = 127                                   \* 127.0.0.0/8
     \/ q[1] = 10                                    \* 10.0.0.0/8
     \/ q[1] = 172 /\ q[2] >= 16 /\ q[2] <= 31       \* 172.16.0.0/12
     \/ q[1] = 192 /\ q[2] = 168                     \* 192.168.0.0/16
     \/ q[1] = 169 /\ q[2] = 254                     \* 169.254.0.0/16

InIpv6Classes(a) ==
  \/ a = "::1"                                                \* loopback
  \/ FirstGroup(a) \div 64 = 1018                             \* fe80::/10 (fe80..febf)
  \/ FirstGroup(a) \div 512 = 126                             \* fc00::/7  (fc00..fdff)

InListedClass(h) ==
  \/ InIpv4Classes(DottedQuad(h))
  \/ InIpv6Classes(Unbracketed(h))
  \/ toLowerCase(h) = "localhost"
  \/ toLowerCase(h) = "metadata.google.internal"
  \/ EndsWith(toLowerCase(h), ".internal")

(***************************************************************************)
(* The body classifier on its own: analyzeHtml applied to pages that quote *)
(* prices.  A page is "Price: <first> or <second> today"; each quoted text *)
(* is listed with the amount it denotes in hundredths and the price        *)
(* pattern that matches it (1: $, 2: USD, 3: the euro pattern as the file  *)
(* spells it, 4: EUR; 0: none).                                            *)
(*   cmode      "none", "body" once analyzeHtml ran, "read" once           *)
(*              readResponseWithLimit ran                                  *)
(*   cinput     the quoted texts of the page analysed, in page order; or   *)
(*              the body stream that was read                              *)
(*   cevidence  the ParkingDetection analyzeHtml returned; or what         *)
(*              readResponseWithLimit returned (<<>>: null)                *)
(***************************************************************************)
Quote(text, hundredths, family) ==
  [text |-> text, hundredths |-> hundredths, family |-> family]

PriceQuotes ==
  {Quote("$3", 300, 1), Quote("$49.99", 4999, 1), Quote("$50", 5000, 1),
   Quote("$12,500", 1250000, 1), Quote("$1,000,000", 100000000, 1),
   Quote("$1,000,000.01", 100000001, 1), Quote("USD 75", 7500, 2),
   Quote("usd 20", 2000, 2), Quote("EUR 5000", 500000, 4), Quote("EUR 9", 900, 4),
   Quote(EuroAsWritten \o "900", 90000, 3), Quote(EuroSign \o "900", 90000, 0)}

QuotedPages ==
  {<<a>> : a \in PriceQuotes} \cup {<<a, b>> : a \in PriceQuotes, b \in PriceQuotes}

PageOf(quotes) ==
  "Price: " \o quotes[1].text
  \o (IF Len(quotes) > 1 THEN " or " \o quotes[2].text ELSE "") \o " today"

ClassInit == cmode = "none" /\ cinput = <<>> /\ cevidence = <<>>

\* const parkingDetection = this.analyzeHtml(html)
AnalyzeHtmlCall ==
  /\ cmode = "none"
  /\ \E quotes \in QuotedPages :
       /\ cmode' = "body"
       /\ cinput' = quotes
       /\ cevidence' = <<analyzeHtml(PageOf(quotes))>>
  /\ UNCHANGED <<probeVars, blockVars, bulkVars, serverVars, repeatVars, deadlineVars, pageVars, retryVars>>

(***************************************************************************)
(* analyzeHtml applied to whole pages: `words` words of running text, then *)
(* at most one broker signature, at most one generic phrase and at most    *)
(* two quoted prices.  cmode is "page", cinput the description of the page *)
(* [words, signature, phrase, quotes] (signature and phrase are sequences  *)
(* of length 0 or 1), cevidence what analyzeHtml returned.                 *)
(***************************************************************************)
PageWords == {0, SiteWords}
PageSignatures == {<<>>, <<"powered by sedo">>}
PagePhrases == {<<>>, <<"parked free">>, <<"Domain parking">>}
PageQuotes ==
  {q \in PriceQuotes : q.text \in {"$3", "$50", "USD 75", "EUR 9", "EUR 5000"}}
Pages ==
  [words : PageWords, signature : PageSignatures, phrase : PagePhrases,
   quotes : {<<>>} \cup {<<a>> : a \in PageQuotes}
            \cup {<<a, b>> : a \in PageQuotes, b \in PageQuotes}]

HtmlOf(page) ==
  "<html><body><p>" \o Words(page.words) \o "</p><p>"
  \o (IF page.signature = <<>> THEN "" ELSE page.signature[1] \o " ")
  \o (IF page.phrase = <<>> THEN "" ELSE page.phrase[1] \o " ")
  \o (IF page.quotes = <<>> THEN "" ELSE PageOf(page.quotes))
  \o "</p></body></html>"

\* const parkingDetection = this.analyzeHtml(html), html being a whole page
AnalyzePageCall ==
  /\ cmode = "none"
  /\ \E page \in Pages :
       /\ cmode' = "page"
       /\ cinput' = page
       /\ cevidence' = <<analyzeHtml(HtmlOf(page))>>
  /\ UNCHANGED <<probeVars, blockVars, bulkVars, serverVars, repeatVars, deadlineVars, pageVars, retryVars>>

(***************************************************************************)
(* readResponseWithLimit, chunk by chunk.  A body stream is                *)
(*   [reader, sizes, failsAt]: reader FALSE = response.body has no reader; *)
(*   sizes = the lengths of the chunks reader.read() yields, in order;     *)
(*   failsAt = k when the k-th read rejects (0: none does).                *)
(* Bytes are named by where they come from: a run [src, count] is `count`  *)
(* consecutive bytes from the start of chunk src; src 0 is the zero byte   *)
(* a fresh Uint8Array holds.  The decoded string is these bytes.           *)
(***************************************************************************)
MAX_RESPONSE_SIZE == 1048576

ChunkSizes == {1, 400000, 648576, 700000, 1048576, 1048577}

\* the longest body stream tried, in chunks
MaxChunks == 3

BodyStreams ==
  {[reader |-> FALSE, sizes |-> <<>>, failsAt |-> 0]}
  \cup {[reader |-> TRUE, sizes |-> s, failsAt |-> f] :
          s \in UNION {[1..n -> ChunkSizes] : n \in 0..MaxChunks}, f \in {0, 2}}

\* the while loop: chunks pushed (by index), totalSize, and whether a read threw
RECURSIVE ReadLoop(_, _, _, _)
ReadLoop(stream, k, chunks, totalSize) ==
  IF stream.failsAt = k THEN [chunks |-> chunks, totalSize |-> totalSize, threw |-> TRUE]
  ELSE IF k > Len(stream.sizes)
    THEN [chunks |-> chunks, totalSize |-> totalSize, threw |-> FALSE]
  ELSE IF totalSize + stream.sizes[k] > MAX_RESPONSE_SIZE
    THEN [chunks |-> chunks, totalSize |-> totalSize + stream.sizes[k], threw |-> FALSE]
  ELSE ReadLoop(stream, k + 1, Append(chunks, k), totalSize + stream.sizes[k])

\* the copy loop into `concatenated` (length n): the runs written so far
RECURSIVE CopyLoop(_, _, _, _, _, _)
CopyLoop(stream, chunks, j, offset, n, written) ==
  IF j > Len(chunks) THEN [written |-> written, filled |-> offset]
  ELSE IF offset + stream.sizes[chunks[j]] > n
    THEN [written |-> Append(written, [src |-> chunks[j], count |-> n - offset]),
          filled |-> n]
  ELSE CopyLoop(stream, chunks, j + 1, offset + stream.sizes[chunks[j]], n,
                Append(written, [src |-> chunks[j], count |-> stream.sizes[chunks[j]]]))

\* new Uint8Array(n) after the copy loop: what was written, then zero bytes
Concatenated(stream, chunks, n) ==
  LET copied == CopyLoop(stream, chunks, 1, 0, n, <<>>)
  IN IF copied.filled < n
       THEN Append(copied.written, [src |-> 0, count |-> n - copied.filled])
       ELSE copied.written

\* the length of `concatenated`
ConcatenatedLength(totalSize) ==
  IF totalSize > MAX_RESPONSE_SIZE THEN MAX_RESPONSE_SIZE ELSE totalSize

\* readResponseWithLimit(response): <<the bytes decoded>>, or <<>> for null
ReadWithLimit(stream) ==
  IF ~stream.reader THEN <<>>
  ELSE LET read == ReadLoop(stream, 1, <<>>, 0)
       IN IF read.threw THEN <<>>
          ELSE <<Concatenated(stream, read.chunks, ConcatenatedLength(read.totalSize))>>

\* const html = await this.readResponseWithLimit(response)
ReadResponseCall ==
  /\ cmode = "none"
  /\ \E stream \in BodyStreams :
       /\ cmode' = "read"
       /\ cinput' = stream
       /\ cevidence' = ReadWithLimit(stream)
  /\ UNCHANGED <<probeVars, blockVars, bulkVars, serverVars, repeatVars, deadlineVars, pageVars, retryVars>>

ClassNext == AnalyzeHtmlCall \/ AnalyzePageCall \/ ReadResponseCall

(***************************************************************************)
(* The prices a pricing provider hands to lookup_domain.  The answer of    *)
(* the TLD-List API is a list of registrar entries [registrar, register,   *)
(* valid] (valid FALSE: an entry isValidRegistrarData rejects); the answer *)
(* of the Porkbun API has one price for the TLD or none.                   *)
(***************************************************************************)
MaxRegistrars == 3
RegistrarNames == {"Alpha", "Beta"}
RegistrationPrices == {5, 9}

RegistrarEntries ==
  [registrar : RegistrarNames, register : RegistrationPrices, valid : BOOLEAN]

\* what the upstream API of a provider can list for the TLD
PricingAnswers(provider) ==
  IF provider = "tld-list"
    THEN UNION {[1..n -> RegistrarEntries] : n \in 0..MaxRegistrars}
    ELSE {<<>>} \cup {<<[registrar |-> "Porkbun", register |-> p, valid |-> TRUE]>> :
                        p \in RegistrationPrices}

isValidRegistrarData(r) == r.valid

\* data.registrars.map(r => ({ registrar, registrationPrice: r.register, ... }))
RegistrarPrice(r) == [registrar |-> r.registrar, registrationPrice |-> r.register]

RECURSIVE InsertByRegistration(_, _)
\* x goes behind every element that the comparator does not put after it
InsertByRegistration(sorted, x) ==
  IF sorted = <<>> THEN <<x>>
  ELSE IF sorted[Len(sorted)].registrationPrice - x.registrationPrice <= 0
    THEN Append(sorted, x)
  ELSE Append(InsertByRegistration(SubSeq(sorted, 1, Len(sorted) - 1), x),
              sorted[Len(sorted)])

RECURSIVE SortedByRegistration(_)
\* [...prices].sort((a, b) => a.registrationPrice - b.registrationPrice): the
\* sort is stable
SortedByRegistration(prices) ==
  IF prices = <<>> THEN <<>>
  ELSE InsertByRegistration(SortedByRegistration(SubSeq(prices, 1, Len(prices) - 1)),
                            prices[Len(prices)])

\* a conversion that names the first listed registrar as the cheapest; against
\* it C31_HeadlineIsCheapest fails
convertToPricingFirstListed(registrars) ==
  [prices |-> [i \in 1..Len(registrars) |-> RegistrarPrice(registrars[i])],
   cheapestRegistration |-> <<RegistrarPrice(registrars[1])>>]

\* TldListProvider.convertToPricing: cheapestRegistration is sortedByRegistration[0]
convertToPricing(registrars) ==
  [prices |-> [i \in 1..Len(registrars) |-> RegistrarPrice(registrars[i])],
   cheapestRegistration |->
     SubSeq(SortedByRegistration([i \in 1..Len(registrars) |->
                                    RegistrarPrice(registrars[i])]), 1, 1)]

\* getTldPricing of the provider: <<>> for null, else <<pricing>>
TldPricingOf(provider, answer) ==
  IF provider = "tld-list"
    THEN (IF SelectSeq(answer, isValidRegistrarData) = <<>> THEN <<>>
          ELSE <<convertToPricing(SelectSeq(answer, isValidRegistrarData))>>)
    ELSE (IF answer = <<>> THEN <<>>
          ELSE <<[prices |-> <<RegistrarPrice(answer[1])>>,
                  cheapestRegistration |-> <<RegistrarPrice(answer[1])>>]>>)

\* handleLookupDomain step 2: result.pricing.cheapest, <<>> when there is none
CheapestOf(pricing) ==
  IF pricing # <<>> /\ Len(pricing[1].prices) > 0
    THEN pricing[1].cheapestRegistration
    ELSE <<>>

\* const pricing = await pricingProviders[0].getTldPricing(tld), and the
\* cheapest price of the reply
LookupPricingCall ==
  /\ cmode = "none"
  /\ Len(server.pricingProviders) > 0
  /\ \E answers \in [1..Len(server.pricingProviders)
                       -> UNION {PricingAnswers(p) : p \in {"tld-list", "porkbun"}}] :
       /\ \A i \in DOMAIN answers : answers[i] \in PricingAnswers(server.pricingProviders[i])
       /\ cmode' = "pricing"
       /\ cinput' = answers
       /\ cevidence' = CheapestOf(TldPricingOf(server.pricingProviders[1], answers[1]))
  /\ UNCHANGED <<probeVars, blockVars, bulkVars, serverVars, repeatVars, deadlineVars, pageVars, retryVars>>

PricingNext == LookupPricingCall

(***************************************************************************)
(* The merge of the aftermarket listings in handleSearchDomains.  A        *)
(* listing is [domain, price]; its source is the provider that returned    *)
(* it.  aftermarketListings is a function from the lower-cased domain to   *)
(* [source, price].                                                        *)
(***************************************************************************)
MaxListings == 3
ListedDomains == {"shop.com", "Shop.COM", "shop.io"}
ListingPrices == {100, 250}

SearchListings ==
  UNION {[1..n -> [domain : ListedDomains, price : ListingPrices]] : n \in 0..MaxListings}

\* a merge in which the listing read last replaces the entry; against it
\* C32_MergeKeepsLowestPrice fails
MergeListingLastWins(map, source, listing) ==
  [k \in DOMAIN map \cup {toLowerCase(listing.domain)} |->
     IF k = toLowerCase(listing.domain)
       THEN [source |-> source, price |-> listing.price]
       ELSE map[k]]

\* if (!existing || listing.price < existing.price) aftermarketListings.set(key, ...)
MergeListing(map, source, listing) ==
  IF toLowerCase(listing.domain) \notin DOMAIN map
       \/ listing.price < map[toLowerCase(listing.domain)].price
    THEN [k \in DOMAIN map \cup {toLowerCase(listing.domain)} |->
            IF k = toLowerCase(listing.domain)
              THEN [source |-> source, price |-> listing.price]
              ELSE map[k]]
    ELSE map

RECURSIVE MergeProvider(_, _, _, _)
\* for (const listing of searchResult.listings) { ... }
MergeProvider(map, source, listings, i) ==
  IF i > Len(listings) THEN map
  ELSE MergeProvider(MergeListing(map, source, listings[i]), source, listings, i + 1)

RECURSIVE MergeAll(_, _, _, _)
\* for (const provider of aftermarketProviders) { ... }
MergeAll(map, providers, found, p) ==
  IF p > Len(providers) THEN map
  ELSE MergeAll(MergeProvider(map, providers[p], found[p], 1), providers, found, p + 1)

\* "Check aftermarket listings": every provider searched, the listings merged
SearchMergeCall ==
  /\ cmode = "none"
  /\ Len(server.aftermarketProviders) > 0
  /\ \E found \in [1..Len(server.aftermarketProviders) -> SearchListings] :
       /\ cmode' = "merge"
       /\ cinput' = found
       /\ cevidence' = <<MergeAll(<<>>, server.aftermarketProviders, found, 1)>>
  /\ UNCHANGED <<probeVars, blockVars, bulkVars, serverVars, repeatVars, deadlineVars, pageVars, retryVars>>

MergeNext == SearchMergeCall


(***************************************************************************)
(* verifyBulk, called on its own or by handleCheckBulk.  A probe is one    *)
(* verifyDomain call; it is started by chunk.map and settles when its      *)
(* verifyDomain returns.  verifyDomain absorbs every failure, so a probe   *)
(* that fails (no address, refused, timed out) settles with unknown; a     *)
(* probe that does not fail finds the site of its domain.                  *)
(*   bulkPc       "idle", "chunk" (about to start chunks[chunkIdx]),       *)
(*                "await" (at await Promise.all), "delay" (at await        *)
(*                this.delay(200)), "done" (returned)                      *)
(*   bulkDomains  the argument `domains`                                   *)
(*   chunkIdx     index of the current chunk                               *)
(*   inFlight     indices (into domains) of the probes started and not     *)
(*                yet settled                                              *)
(*   chunkResults results of the settled probes of the current chunk, by   *)
(*                index into domains                                       *)
(*   results      the Map `results`: a function from its keys              *)
(*   bulkHist     history of the call: indices of the probes that failed,  *)
(*                of the probes settled, the number of delays elapsed and  *)
(*                the largest number of probes in flight so far            *)
(***************************************************************************)
\* const concurrency = 5
BULK_CONCURRENCY == 5

\* the longest list of domains tried
MaxBulkDomains == 12

BulkDomainName(i) == "site" \o ToDec(i) \o ".example"

\* lists of distinct domains of every length, and one that names a domain twice
BulkInputs ==
  {[i \in 1..n |-> BulkDomainName(i)] : n \in 0..MaxBulkDomains}
  \cup {<<BulkDomainName(1), BulkDomainName(2), BulkDomainName(1)>>}

\* the sites behind the domains: free.com has none (every probe of it fails),
\* parked.com shows a parking page, every other domain a live site
LiveSite == MkResult("taken", <<>>, 200, NoRedirectUrl)
ParkedSite ==
  MkResult("parked",
           <<[isParked |-> TRUE, broker |-> NoBroker,
              indicators |-> <<"This domain is for sale", "Minimal page content">>,
              estimatedPrice |-> NoPrice, confidence |-> "medium"]>>,
           200, NoRedirectUrl)
HasSite(domain) == domain # "free.com"
SiteOf(domain) == IF domain = "parked.com" THEN ParkedSite ELSE LiveSite

\* what verifyDomain(domain) returns
ProbeOutcome(domain, failed) == IF failed THEN Unknown ELSE SiteOf(domain)

\* variant: the whole array as one chunk
chunkArrayWhole(array, size) == [k \in 1..1 |-> [j \in 1..Len(array) |-> j]]

\* chunkArray(array, size): the chunks as sequences of indices into array
chunkArray(array, size) ==
  [k \in 1..((Len(array) + size - 1) \div size) |->
     [j \in 1..(IF k * size <= Len(array) THEN size ELSE Len(array) - (k - 1) * size) |->
        (k - 1) * size + j]]

NoBulkHist == [failed |-> {}, settled |-> {}, delays |-> 0, maxInFlight |-> 0]

BulkInit ==
  /\ bulkPc = "idle" /\ bulkDomains = <<>> /\ chunkIdx = 0 /\ inFlight = {}
  /\ chunkResults = <<>> /\ results = <<>> /\ bulkHist = NoBulkHist

\* results = new Map(); chunks = chunkArray(domains, concurrency)
VerifyBulkEnter(domains) ==
  /\ bulkDomains' = domains
  /\ bulkPc' = IF Len(domains) = 0 THEN "done" ELSE "chunk"
  /\ chunkIdx' = IF Len(domains) = 0 THEN 0 ELSE 1
  /\ inFlight' = {}
  /\ chunkResults' = <<>>
  /\ results' = <<>>
  /\ bulkHist' = NoBulkHist

\* the map is with the caller and the call's locals are gone
VerifyBulkLeave ==
  /\ bulkPc' = "idle" /\ bulkDomains' = <<>> /\ chunkIdx' = 0 /\ inFlight' = {}
  /\ chunkResults' = <<>> /\ results' = <<>> /\ bulkHist' = NoBulkHist

\* verifyBulk called on its own
VerifyBulkCall ==
  /\ bulkPc = "idle" /\ hpc = "idle"
  /\ \E domains \in BulkInputs : VerifyBulkEnter(domains)
  /\ UNCHANGED <<probeVars, blockVars, classVars, serverVars, repeatVars, deadlineVars, pageVars, retryVars>>

\* chunk.map(async domain => ...): every probe of the chunk starts
ChunkStart ==
  /\ bulkPc = "chunk"
  /\ \E chunk \in {chunkArray(bulkDomains, BULK_CONCURRENCY)[chunkIdx]} :
       /\ inFlight' = inFlight \cup {chunk[j] : j \in DOMAIN chunk}
       /\ bulkHist' = [bulkHist EXCEPT
                         !.maxInFlight =
                            IF Cardinality(inFlight \cup {chunk[j] : j \in DOMAIN chunk}) > @
                              THEN Cardinality(inFlight \cup {chunk[j] : j \in DOMAIN chunk})
                              ELSE @]
  /\ chunkResults' = <<>>
  /\ bulkPc' = "await"
  /\ UNCHANGED <<bulkDomains, chunkIdx, results>>
  /\ UNCHANGED <<probeVars, blockVars, classVars, serverVars, repeatVars, deadlineVars, pageVars, retryVars>>

\* one verifyDomain call of the chunk returns: { domain, result }
ProbeSettles ==
  /\ bulkPc = "await"
  /\ \E i \in inFlight :
       \E failed \in (IF HasSite(bulkDomains[i]) THEN BOOLEAN ELSE {TRUE}) :
         /\ inFlight' = inFlight \ {i}
         /\ chunkResults' = (i :> ProbeOutcome(bulkDomains[i], failed)) @@ chunkResults
         /\ bulkHist' = [bulkHist EXCEPT
                           !.failed = IF failed THEN @ \cup {i} ELSE @,
                           !.settled = @ \cup {i}]
  /\ UNCHANGED <<bulkPc, bulkDomains, chunkIdx, results>>
  /\ UNCHANGED <<probeVars, blockVars, classVars, serverVars, repeatVars, deadlineVars, pageVars, retryVars>>

\* variant: the loop goes on without waiting for the chunk
PromiseAllImmediate(pending) == TRUE

\* Promise.all resolved: every promise of the chunk is settled
PromiseAllResolved(pending) == pending = {}

\* variant: the map holds the current chunk only
SetResultsFresh(map, domains, entries) ==
  [d \in {domains[i] : i \in DOMAIN entries} |->
     entries[Max({i \in DOMAIN entries : domains[i] = d})]]

\* the keys and values after results.set(domain, result) for each chunk result
\* in the order of the chunk: for a domain named twice the later one stays
SetResults(map, domains, entries) ==
  [d \in DOMAIN map \cup {domains[i] : i \in DOMAIN entries} |->
     IF \E i \in DOMAIN entries : domains[i] = d
       THEN entries[Max({i \in DOMAIN entries : domains[i] = d})]
       ELSE map[d]]

\* for (const { domain, result } of chunkResults) results.set(domain, result)
ChunkCollected ==
  /\ bulkPc = "await"
  /\ PromiseAllResolved(inFlight)
  /\ results' = SetResults(results, bulkDomains, chunkResults)
  /\ bulkPc' = "delay"
  /\ UNCHANGED <<bulkDomains, chunkIdx, inFlight, chunkResults, bulkHist>>
  /\ UNCHANGED <<probeVars, blockVars, classVars, serverVars, repeatVars, deadlineVars, pageVars, retryVars>>

\* await this.delay(200) is over: the next chunk, or return results
DelayElapsed ==
  /\ bulkPc = "delay"
  /\ bulkHist' = [bulkHist EXCEPT !.delays = @ + 1]
  /\ IF chunkIdx < Len(chunkArray(bulkDomains, BULK_CONCURRENCY))
       THEN bulkPc' = "chunk" /\ chunkIdx' = chunkIdx + 1
       ELSE bulkPc' = "done" /\ chunkIdx' = chunkIdx
  /\ UNCHANGED <<bulkDomains, inFlight, chunkResults, results>>
  /\ UNCHANGED <<probeVars, blockVars, classVars, serverVars, repeatVars, deadlineVars, pageVars, retryVars>>

\* verifyBulk called on its own: the caller took the map
VerifyBulkDone ==
  /\ bulkPc = "done" /\ hpc = "idle"
  /\ VerifyBulkLeave
  /\ UNCHANGED <<probeVars, blockVars, classVars, serverVars, repeatVars, deadlineVars, pageVars, retryVars>>

(***************************************************************************)
(* server.ts: input validation.                                            *)
(* A tool argument is [type, value]; only type "string" carries a text.    *)
(***************************************************************************)
MAX_DOMAIN_LENGTH == 253
MAX_KEYWORD_LENGTH == 63

StringArg(text) == [type |-> "string", value |-> text]
NonStringArg == [type |-> "number", value |-> ""]

\* String.prototype.trim
Trim(s) ==
  LET kept == {i \in 1..Len(s) : ~IsSpace(Ch(s, i))}
  IN IF kept = {} THEN "" ELSE SubSeq(s, Min(kept), Max(kept))

IsAlnum(c) == IndexOf(c, LowerChars) # 0 \/ IsDigit(c)

\* [a-z0-9]([a-z0-9-]*[a-z0-9])?
IsLabel(l) ==
  /\ Len(l) >= 1
  /\ \A i \in 1..Len(l) : IsAlnum(Ch(l, i)) \/ Ch(l, i) = "-"
  /\ IsAlnum(Ch(l, 1)) /\ IsAlnum(Ch(l, Len(l)))

\* s.split('.')
SplitDots(s) ==
  LET dots == {i \in 1..Len(s) : Ch(s, i) = "."}
      n == Cardinality(dots)
      cut(k) == IF k = 0 THEN 0
                ELSE IF k = n + 1 THEN Len(s) + 1
                ELSE CHOOSE i \in dots : Cardinality({d \in dots : d <= i}) = k
  IN [k \in 1..(n + 1) |-> SubSeq(s, cut(k - 1) + 1, cut(k) - 1)]

\* DOMAIN_REGEX.test(s): two or more labels joined by dots
DOMAIN_REGEX(s) ==
  /\ Len(SplitDots(s)) >= 2
  /\ \A k \in 1..Len(SplitDots(s)) : IsLabel(SplitDots(s)[k])

\* KEYWORD_REGEX.test(s): one label, or one alphanumeric character
KEYWORD_REGEX(s) ==
  \/ Len(s) >= 2 /\ IsAlnum(Ch(s, 1)) /\ IsAlnum(Ch(s, Len(s)))
     /\ \A i \in 1..Len(s) : IsAlnum(Ch(s, i)) \/ Ch(s, i) = "-"
  \/ Len(s) = 1 /\ IsAlnum(s)

\* validateDomain / validateKeyword: [ok, value]; ok = FALSE when the code throws
\* variant: the format test is left out
ValidatedAnyFormat(arg, maxLength, matches) ==
  [ok |-> /\ arg.type = "string"
          /\ Len(arg.value) > 0
          /\ Len(arg.value) <= maxLength,
   value |-> arg.value]

Validated(arg, maxLength, matches) ==
  [ok |-> /\ arg.type = "string"
          /\ Len(arg.value) > 0
          /\ Len(arg.value) <= maxLength
          /\ matches,
   value |-> arg.value]

Normalized(arg) == StringArg(IF arg.type = "string" THEN Trim(toLowerCase(arg.value)) ELSE "")

validateDomain(domain) ==
  IF domain.type # "string" THEN Validated(domain, MAX_DOMAIN_LENGTH, FALSE)
  ELSE Validated(Normalized(domain), MAX_DOMAIN_LENGTH, DOMAIN_REGEX(Normalized(domain).value))

validateKeyword(keyword) ==
  IF keyword.type # "string" THEN Validated(keyword, MAX_KEYWORD_LENGTH, FALSE)
  ELSE Validated(Normalized(keyword), MAX_KEYWORD_LENGTH,
                 KEYWORD_REGEX(Normalized(keyword).value))

\* normalizedDomain.split('.').pop() || ''
TldOf(domain) == SplitDots(domain)[Len(SplitDots(domain))]

(***************************************************************************)
(* RdapService.  What fetchIPv4 does for the registry query is             *)
(*   [kind, status, json]: kind "throws" = it rejected (network failure,   *)
(*   abort on timeout); json = what response.json() gives: "object", or    *)
(*   "invalid" when it rejects or the value is not an object               *)
(*   parseRdapResponse can read.  NoFetch: no query was sent.              *)
(***************************************************************************)
RDAP_SERVERS ==
  {"com", "net", "org", "info", "biz", "io", "dev", "app", "ai", "sh", "co", "me", "xyz",
   "tech", "run", "uk", "de", "nl", "eu", "au", "ca", "us", "gg", "tv", "fm"}

\* the TLDs the IANA bootstrap file may have put in bootstrapCache
BootstrapCaches == {{}, {"example"}}

NoFetch == [kind |-> "none", status |-> 0, json |-> "invalid"]
RdapFetches ==
  {[kind |-> "throws", status |-> 0, json |-> "invalid"],
   [kind |-> "response", status |-> 200, json |-> "object"],
   [kind |-> "response", status |-> 200, json |-> "invalid"],
   [kind |-> "response", status |-> 203, json |-> "object"],
   [kind |-> "response", status |-> 404, json |-> "invalid"],
   [kind |-> "response", status |-> 500, json |-> "invalid"]}

\* getRdapServer(tld) !== null
getRdapServer(tld, bootstrapCache) == tld \in bootstrapCache \/ tld \in RDAP_SERVERS

\* response.ok
ResponseOk(status) == status >= 200 /\ status <= 299

RdapResult(available, registered, error) ==
  [available |-> available, registered |-> registered, error |-> error]

\* the query checkDomain sends, if it sends one
RdapQuery(domain, bootstrapCache, fetched) ==
  IF getRdapServer(TldOf(Trim(toLowerCase(domain))), bootstrapCache) THEN fetched ELSE NoFetch

\* a checkDomain that reads every answer but a parsed 2xx as "not registered";
\* against it C5_AvailableOnlyFromRegistry fails
checkDomainOptimistic(domain, bootstrapCache, fetched) ==
  IF fetched.kind = "response" /\ ResponseOk(fetched.status) /\ fetched.json = "object"
    THEN RdapResult(FALSE, TRUE, FALSE)
    ELSE RdapResult(TRUE, FALSE, FALSE)

checkDomain(domain, bootstrapCache, fetched) ==
  IF ~getRdapServer(TldOf(Trim(toLowerCase(domain))), bootstrapCache)
    THEN RdapResult(FALSE, FALSE, TRUE)
  ELSE IF fetched.kind = "throws" THEN RdapResult(FALSE, FALSE, TRUE)
  ELSE IF fetched.status = 404 THEN RdapResult(TRUE, FALSE, FALSE)
  ELSE IF ResponseOk(fetched.status)
    THEN (IF fetched.json = "object" THEN RdapResult(FALSE, TRUE, FALSE)
          ELSE RdapResult(FALSE, FALSE, TRUE))
  ELSE RdapResult(FALSE, FALSE, TRUE)

\* if (rdapResult.available) status = 'available'
\* else if (rdapResult.registered) status = 'taken'
ApplyRdap(status, rdapResult) ==
  IF rdapResult.available THEN "available"
  ELSE IF rdapResult.registered THEN "taken"
  ELSE status

(***************************************************************************)
(* Providers.  What the upstream API does is "prices" (a usable answer for *)
(* the TLD), "missing" (a usable answer without the TLD), "error" (HTTP    *)
(* error, network failure, timeout) or "malformed" (a success answer with  *)
(* an unusable entry).  getTldPricing gives "pricing", "null" or "throws". *)
(***************************************************************************)
PricingUpstream == {"prices", "missing", "error", "malformed"}

\* TldListProvider.getTldPricing: everything is inside its try
TldListGetTldPricing(upstream) ==
  IF upstream = "prices" THEN "pricing" ELSE "null"

\* PorkbunProvider.getTldPricing: parsePricingResponse runs outside any try
PorkbunGetTldPricing(upstream) ==
  IF upstream = "prices" THEN "pricing"
  ELSE IF upstream = "malformed" THEN "throws"
  ELSE "null"

getTldPricing(provider, upstream) ==
  IF provider = "tld-list" THEN TldListGetTldPricing(upstream)
  ELSE PorkbunGetTldPricing(upstream)

\* ServerConfig: tldListApiKey "" when unset; namecheap "absent", "legacy"
\* (the four legacy credentials, no auctions token) or "token" (auctions token only)
Configs ==
  [tldListApiKey : {"", "key"}, namecheap : {"absent", "legacy", "token"},
   enableHttpVerification : BOOLEAN]

\* a registry that takes only providers holding a key; against it
\* C38_OnePricingProvider fails
RegisterKeyed(providers, name, isConfigured) ==
  IF isConfigured /\ name # "porkbun" THEN Append(providers, name) ELSE providers

\* ProviderRegistry.registerPricingProvider / registerAftermarketProvider
Register(providers, name, isConfigured) ==
  IF isConfigured THEN Append(providers, name) ELSE providers

\* the constructor and initializeProviders
Construct(config) ==
  [config |-> config,
   namecheapService |-> config.namecheap = "legacy",
   pricingProviders |->
     IF config.tldListApiKey # ""
       THEN Register(<<>>, "tld-list", Len(config.tldListApiKey) > 0)
       ELSE Register(<<>>, "porkbun", TRUE),
   aftermarketProviders |->
     IF config.namecheap # "absent"
       THEN Register(<<>>, "namecheap-auctions", config.namecheap = "token")
       ELSE <<>>]

\* NamecheapAuctionsProvider.getDomainListing: "listing" or "null"; every
\* failure of the upstream search is caught and gives null
AftermarketUpstream == {"match", "nomatch", "error"}
getDomainListing(upstream) == IF upstream = "match" THEN "listing" ELSE "null"

\* NamecheapService (legacy API), reached only when no pricing provider is
\* registered; its getTldPricing catches the failure of refreshPricingCache
NamecheapPricingAnswers == {"pricing", "null"}
NamecheapCheckAnswers == {"available", "taken", "premium", "error", "throws"}

(***************************************************************************)
(* What httpService.verifyDomain can hand to a tool handler: the unknown   *)
(* result of the blocked check, or what a tryFetch chain returned.         *)
(***************************************************************************)
VerifyResults ==
  {Unknown}
  \cup {step.result :
          step \in {st \in {TryFetchStep(MkUrl(sc, h, pa), response) :
                              sc \in Schemes, h \in KnownHosts, pa \in Paths,
                              response \in Responses} : st.tag = "return"}}

(***************************************************************************)
(* The tool handlers of DomainMcpServer, one call at a time.  A handler is *)
(* cut at its awaits: one action per step, the step's `if` included.       *)
(*   server   config, namecheapService (present or not) and the registry,  *)
(*            as the constructor left them                                 *)
(*   hpc      "idle"; the step the running handler is at; "returned"       *)
(*   tool     the tool called;  args  its toggles                          *)
(*   normalizedDomain  the validated domain argument                       *)
(*   hresult  the `result` object being built;  isError  the reply is an   *)
(*            error reply                                                  *)
(*   hist     history of the call: the argument given, the registry query  *)
(*            made, the status before and after each step, and the         *)
(*            services called so far (network): "registry" (rdapService),  *)
(*            "pricing" and "aftermarket" (providers), "registrar"         *)
(*            (namecheapService), "http" (httpService)                     *)
(*   search   the locals of handleSearchDomains and of handleCheckBulk      *)
(***************************************************************************)
NoArgs ==
  [include_pricing |-> TRUE, include_aftermarket |-> TRUE, include_parking |-> TRUE,
   verify_http |-> TRUE]
NoResult ==
  [status |-> "none", verificationMethod |-> "none", pricing |-> FALSE,
   aftermarket |-> FALSE, parking |-> FALSE]
NoHist ==
  [rdap |-> NoFetch, rdapResult |-> RdapResult(FALSE, FALSE, FALSE), base |-> "none",
   pricing |-> "none", prePricing |-> "none", postPricing |-> "none",
   listed |-> FALSE, preAftermarket |-> "none", postAftermarket |-> "none",
   httpRan |-> FALSE, http |-> "none", preHttp |-> "none",
   input |-> <<>>, network |-> {}]
NoSearch ==
  [tlds |-> <<>>, domains |-> <<>>, rdap |-> <<>>, priced |-> 0, pricingCache |-> {},
   results |-> <<>>, given |-> 0, registrar |-> "none", http |-> <<>>, probeFailed |-> {},
   bulkResult |-> <<>>]

ServerIdle ==
  /\ hpc = "idle" /\ tool = "none" /\ args = NoArgs /\ normalizedDomain = ""
  /\ hresult = NoResult /\ isError = FALSE /\ hist = NoHist /\ search = NoSearch

ServerInit == server \in {Construct(c) : c \in Configs} /\ ServerIdle

DomainArgs ==
  {StringArg(" Example.COM "), StringArg("shop.example"), StringArg("not a domain"),
   NonStringArg}

\* the handler starts: validation, then the initial result object
HandlerStart(name, toggles, input, validated, firstStep) ==
  /\ tool' = name
  /\ args' = toggles
  /\ hist' = [NoHist EXCEPT !.input = <<input>>]
  /\ search' = NoSearch
  /\ IF validated.ok
       THEN /\ normalizedDomain' = validated.value
            /\ hresult' = [NoResult EXCEPT !.status = "unknown", !.verificationMethod = "rdap"]
            /\ isError' = FALSE
            /\ hpc' = firstStep
       ELSE /\ normalizedDomain' = ""
            /\ hresult' = NoResult
            /\ isError' = TRUE
            /\ hpc' = "returned"
  /\ UNCHANGED <<server, probeVars, blockVars, classVars, bulkVars, repeatVars, deadlineVars, pageVars, retryVars>>

\* an exception leaves the handler: the dispatcher's catch replies with isError
HandlerThrows ==
  /\ hresult' = NoResult
  /\ isError' = TRUE
  /\ hpc' = "returned"

\* the reply was sent
HandlerReturn ==
  /\ hpc = "returned"
  /\ hpc' = "idle" /\ tool' = "none" /\ args' = NoArgs /\ normalizedDomain' = ""
  /\ hresult' = NoResult /\ isError' = FALSE /\ hist' = NoHist /\ search' = NoSearch
  /\ UNCHANGED <<server, probeVars, blockVars, classVars, bulkVars, repeatVars, deadlineVars, pageVars, retryVars>>

(***************************************************************************)
(* Steps shared by the handlers.                                           *)
(***************************************************************************)
\* Step 1 of lookup_domain and check_domain: the registry answer sets the base status
RdapStep(cache, fetched, nextStep) ==
  \E rdapResult \in {checkDomain(normalizedDomain, cache, fetched)} :
    /\ hresult' = [hresult EXCEPT !.status = ApplyRdap(@, rdapResult)]
    /\ hist' = [hist EXCEPT !.rdap = RdapQuery(normalizedDomain, cache, fetched),
                            !.rdapResult = rdapResult,
                            !.base = ApplyRdap(hresult.status, rdapResult),
                            !.network = @ \cup {"registry"}]
    /\ hpc' = nextStep
    /\ UNCHANGED <<server, tool, args, normalizedDomain, isError, search, probeVars, blockVars, classVars, bulkVars, repeatVars, deadlineVars, pageVars, retryVars>>

\* what `await pricingProviders[0].getTldPricing(tld)` can give
ProviderPricingAnswers ==
  {getTldPricing(server.pricingProviders[1], upstream) : upstream \in PricingUpstream}

\* a pricing step that reads a price for the TLD as "can be registered"; against
\* it C9_PricingKeepsStatus fails
AttachPricingAsAvailable(res, pricing) ==
  IF pricing = "pricing" THEN [res EXCEPT !.pricing = TRUE, !.status = "available"] ELSE res

\* result.pricing = {...} / result.registrationPrice = ...: price metadata only
AttachPricing(res, pricing) ==
  IF pricing = "pricing" THEN [res EXCEPT !.pricing = TRUE] ELSE res

\* the pricing step ended with the result object `priced`, or threw
PricingDone(pricing, priced, nextStep) ==
  /\ IF pricing = "throws"
       THEN HandlerThrows
       ELSE hresult' = priced /\ hpc' = nextStep /\ UNCHANGED isError
  /\ hist' = [hist EXCEPT !.pricing = pricing,
                          !.prePricing = hresult.status,
                          !.postPricing = IF pricing = "throws" THEN "none" ELSE priced.status,
                          !.network = IF pricing = "skipped" THEN @
                                      ELSE IF pricing = "namecheap" THEN @ \cup {"registrar"}
                                      ELSE @ \cup {"pricing"}]
  /\ UNCHANGED <<server, tool, args, normalizedDomain, search, probeVars, blockVars, classVars, bulkVars, repeatVars, deadlineVars, pageVars, retryVars>>

(***************************************************************************)
(* handleLookupDomain                                                      *)
(***************************************************************************)
LookupArgs ==
  {[NoArgs EXCEPT !.include_pricing = p, !.include_aftermarket = a, !.include_parking = h] :
     p \in BOOLEAN, a \in BOOLEAN, h \in BOOLEAN}

LookupStart ==
  /\ hpc = "idle"
  /\ \E d \in DomainArgs, toggles \in LookupArgs :
       HandlerStart("lookup_domain", toggles, d, validateDomain(d), "rdap")

LookupRdap ==
  /\ hpc = "rdap" /\ tool = "lookup_domain"
  /\ \E cache \in BootstrapCaches, fetched \in RdapFetches : RdapStep(cache, fetched, "pricing")

\* Step 2
LookupPricing ==
  /\ hpc = "pricing" /\ tool = "lookup_domain"
  /\ \E pricing \in (IF ~args.include_pricing THEN {"skipped"}
                     ELSE IF Len(server.pricingProviders) > 0 THEN ProviderPricingAnswers
                     ELSE IF server.namecheapService THEN NamecheapPricingAnswers
                     ELSE {"skipped"}) :
       PricingDone(pricing, AttachPricing(hresult, pricing), "aftermarket")

\* an aftermarket step that upgrades whatever the status is; against it
\* C8_AftermarketUpgradesTakenOnly fails
AftermarketAlwaysForSale(res, isListed) ==
  IF isListed THEN [res EXCEPT !.aftermarket = TRUE, !.status = "for_sale"] ELSE res

\* if (allListings.isListed) { result.aftermarket = ...; taken becomes for_sale }
AftermarketMerge(res, isListed) ==
  IF isListed
    THEN [res EXCEPT !.aftermarket = TRUE,
                     !.status = IF @ = "taken" THEN "for_sale" ELSE @]
    ELSE res

\* Step 3 once every provider answered; `asked` tells if a provider went to
\* its upstream API
AftermarketStep(listings, asked) ==
  \E isListed \in {\E i \in DOMAIN listings : listings[i] = "listing"} :
    /\ hresult' = AftermarketMerge(hresult, isListed)
    /\ hist' = [hist EXCEPT !.listed = isListed,
                            !.preAftermarket = hresult.status,
                            !.postAftermarket = AftermarketMerge(hresult, isListed).status,
                            !.network = IF asked THEN @ \cup {"aftermarket"} ELSE @]
    /\ hpc' = "http"
    /\ UNCHANGED <<server, tool, args, normalizedDomain, isError, search, probeVars, blockVars, classVars, bulkVars, repeatVars, deadlineVars, pageVars, retryVars>>

\* Step 3: one getDomainListing call per registered aftermarket provider
LookupAftermarket ==
  /\ hpc = "aftermarket" /\ tool = "lookup_domain"
  /\ \E listings \in [1..(IF args.include_aftermarket
                            THEN Len(server.aftermarketProviders) ELSE 0)
                      -> {getDomainListing(upstream) : upstream \in AftermarketUpstream}] :
       AftermarketStep(listings, DOMAIN listings # {})

\* the merge as check_domain does it for a registered domain (every HTTP outcome
\* but unknown replaces the status); against it C6_LookupMergeTable fails
LookupMergeHttpWins(res, httpResult) ==
  IF httpResult.status = "unknown" THEN res
  ELSE [res EXCEPT !.status = httpResult.status]

\* Step 4: the merge of the HTTP outcome
LookupMerge(res, httpResult) ==
  IF httpResult.status = "parked" \/ httpResult.status = "for_sale"
    THEN [res EXCEPT !.status = httpResult.status,
                     !.parking = httpResult.parkingDetection # <<>>,
                     !.verificationMethod = "http_check"]
  ELSE IF httpResult.status = "taken" /\ res.status = "available"
    THEN [res EXCEPT !.status = "taken"]
  ELSE res

\* Step 4 with the outcomes verifyDomain can have
HttpStep(outcomes) ==
  /\ IF args.include_parking /\ server.config.enableHttpVerification
       THEN \E httpResult \in outcomes :
              /\ hresult' = LookupMerge(hresult, httpResult)
              /\ hist' = [hist EXCEPT !.httpRan = TRUE, !.http = httpResult.status,
                                      !.preHttp = hresult.status,
                                      !.network = @ \cup {"http"}]
       ELSE /\ hresult' = hresult
            /\ hist' = [hist EXCEPT !.preHttp = hresult.status]
  /\ hpc' = "returned"
  /\ UNCHANGED <<server, tool, args, normalizedDomain, isError, search, probeVars, blockVars, classVars, bulkVars, repeatVars, deadlineVars, pageVars, retryVars>>

LookupHttp ==
  /\ hpc = "http" /\ tool = "lookup_domain"
  /\ HttpStep(VerifyResults)

(***************************************************************************)
(* lookup_domain called again with the same arguments while every upstream  *)
(* answers as before.  What outlives one call is the listing cache of      *)
(* NamecheapAuctionsProvider and the bootstrap state of RdapService.       *)
(*   world          the arguments and what each upstream answers            *)
(*   prev           the replies sent so far, and what each call went to     *)
(*   providerCache  listings: the domains with an entry in the provider's  *)
(*                  cache; bootstrapLoaded, bootstrapCache: RdapService     *)
(***************************************************************************)
MaxCalls == 2

NoWorld ==
  [domain |-> NonStringArg, toggles |-> NoArgs, bootstrap |-> [ok |-> FALSE, tlds |-> {}],
   rdap |-> NoFetch, pricing |-> "error", aftermarket |-> "error", http |-> Unknown]
NoPrev == [replies |-> <<>>, network |-> <<>>, cached |-> <<>>]
NoProviderCache == [listings |-> {}, bootstrapLoaded |-> FALSE, bootstrapCache |-> {}]

RepeatIdle == world = NoWorld /\ prev = NoPrev /\ providerCache = NoProviderCache

Worlds ==
  [domain : {StringArg(" Example.COM "), StringArg("shop.example"), StringArg("not a domain")},
   toggles : LookupArgs,
   bootstrap : [ok : BOOLEAN, tlds : BootstrapCaches],
   rdap : {[kind |-> "throws", status |-> 0, json |-> "invalid"],
           [kind |-> "response", status |-> 200, json |-> "object"],
           [kind |-> "response", status |-> 404, json |-> "invalid"]},
   pricing : {"prices", "error", "malformed"},
   aftermarket : AftermarketUpstream,
   http : {Unknown, LiveSite, ParkedSite}]

RepeatConfigs ==
  {c \in Configs : c.namecheap = "token" /\ c.enableHttpVerification}

\* loadBootstrap: nothing when already loaded; otherwise the entries the
\* download gave are added to the cache
LoadedBootstrap(cache, download) ==
  IF cache.bootstrapLoaded THEN cache.bootstrapCache
  ELSE cache.bootstrapCache \cup download.tlds

\* a getDomainListing whose cache entry holds no listing; against it
\* C25_RepeatedLookupSameReply fails
CachedListingEmpty(domain, cache, expired, upstream) ==
  IF domain \in cache.listings /\ ~expired THEN "null"
  ELSE getDomainListing(upstream)

\* getDomainListing with its cache: an entry that has not expired is returned
\* without a request
CachedListing(domain, cache, expired, upstream) ==
  IF domain \in cache.listings /\ ~expired THEN "listing"
  ELSE getDomainListing(upstream)

RepeatStart ==
  /\ hpc = "idle" /\ Len(prev.replies) < MaxCalls
  /\ HandlerStart("lookup_domain", world.toggles, world.domain,
                  validateDomain(world.domain), "rdap")

RepeatRdap ==
  /\ hpc = "rdap" /\ tool = "lookup_domain"
  /\ RdapStep(LoadedBootstrap(providerCache, world.bootstrap), world.rdap, "pricing")

RepeatPricing ==
  /\ hpc = "pricing" /\ tool = "lookup_domain"
  /\ \E pricing \in (IF ~args.include_pricing THEN {"skipped"}
                     ELSE IF Len(server.pricingProviders) > 0
                       THEN {getTldPricing(server.pricingProviders[1], world.pricing)}
                     ELSE {"skipped"}) :
       PricingDone(pricing, AttachPricing(hresult, pricing), "aftermarket")

RepeatAftermarket ==
  /\ hpc = "aftermarket" /\ tool = "lookup_domain"
  /\ \E expired \in BOOLEAN :
       AftermarketStep(
         [i \in 1..(IF args.include_aftermarket THEN Len(server.aftermarketProviders) ELSE 0)
            |-> CachedListing(normalizedDomain, providerCache, expired, world.aftermarket)],
         args.include_aftermarket /\ Len(server.aftermarketProviders) > 0
           /\ (normalizedDomain \notin providerCache.listings \/ expired))

RepeatHttp ==
  /\ hpc = "http" /\ tool = "lookup_domain"
  /\ HttpStep({world.http})

\* the reply is sent; what the call wrote to the caches is there for the next call
RepeatReturn ==
  /\ hpc = "returned"
  /\ prev' = [replies |-> Append(prev.replies, [result |-> hresult, isError |-> isError]),
              network |-> Append(prev.network, hist.network),
              cached |-> Append(prev.cached, normalizedDomain \in providerCache.listings)]
  /\ providerCache' =
       [listings |-> IF hist.listed THEN providerCache.listings \cup {normalizedDomain}
                     ELSE providerCache.listings,
        bootstrapLoaded |-> providerCache.bootstrapLoaded
                            \/ ("registry" \in hist.network /\ world.bootstrap.ok),
        bootstrapCache |-> IF "registry" \in hist.network
                             THEN LoadedBootstrap(providerCache, world.bootstrap)
                             ELSE providerCache.bootstrapCache]
  /\ hpc' = "idle" /\ tool' = "none" /\ args' = NoArgs /\ normalizedDomain' = ""
  /\ hresult' = NoResult /\ isError' = FALSE /\ hist' = NoHist /\ search' = NoSearch
  /\ UNCHANGED <<server, world, probeVars, blockVars, classVars, bulkVars, deadlineVars, pageVars, retryVars>>

RepeatNext ==
  \/ RepeatStart \/ RepeatRdap \/ RepeatPricing
  \/ RepeatAftermarket \/ RepeatHttp \/ RepeatReturn

(***************************************************************************)
(* handleCheckDomain                                                       *)
(***************************************************************************)
CheckArgs == {[NoArgs EXCEPT !.verify_http = h] : h \in BOOLEAN}

CheckDomainStart ==
  /\ hpc = "idle"
  /\ \E d \in DomainArgs, toggles \in CheckArgs :
       HandlerStart("check_domain", toggles, d, validateDomain(d), "rdap")

CheckDomainRdap ==
  /\ hpc = "rdap" /\ tool = "check_domain"
  /\ \E cache \in BootstrapCaches, fetched \in RdapFetches : RdapStep(cache, fetched, "pricing")

\* the Namecheap branch of step 2: try { checkDomain; getTldPricing } catch { log }
NamecheapFallback(res, checked, pricing) ==
  IF checked = "throws" THEN res
  ELSE LET statused == [res EXCEPT !.status = IF checked \in {"available", "taken", "premium"}
                                                THEN checked ELSE @,
                                   !.pricing = @ \/ checked = "premium",
                                   !.verificationMethod = "registrar_api"]
       IN IF pricing = "pricing" /\ statused.status # "premium"
            THEN [statused EXCEPT !.pricing = TRUE]
            ELSE statused

\* Step 2
CheckDomainPricing ==
  /\ hpc = "pricing" /\ tool = "check_domain"
  /\ IF Len(server.pricingProviders) > 0
       THEN \E pricing \in ProviderPricingAnswers :
              PricingDone(pricing, AttachPricing(hresult, pricing), "http")
       ELSE IF server.namecheapService
         THEN \E checked \in NamecheapCheckAnswers, pricing \in NamecheapPricingAnswers :
                PricingDone("namecheap", NamecheapFallback(hresult, checked, pricing), "http")
         ELSE PricingDone("skipped", hresult, "http")

\* Step 3, status taken or unknown
CheckMergeRegistered(res, httpResult, rdapResult) ==
  [res EXCEPT
     !.status = IF httpResult.status = "available"
                  THEN (IF rdapResult.registered THEN "taken" ELSE "available")
                ELSE IF httpResult.status = "parked" \/ httpResult.status = "for_sale"
                  THEN httpResult.status
                ELSE IF httpResult.status = "taken" THEN "taken"
                ELSE @,
     !.parking = IF httpResult.status = "parked" \/ httpResult.status = "for_sale"
                   THEN httpResult.parkingDetection # <<>> ELSE @,
     !.verificationMethod = "http_check"]

\* Step 3, status available
CheckMergeAvailable(res, httpResult) ==
  IF httpResult.status = "parked" \/ httpResult.status = "for_sale"
    THEN [res EXCEPT !.status = httpResult.status,
                     !.parking = httpResult.parkingDetection # <<>>]
  ELSE IF httpResult.status = "taken" THEN [res EXCEPT !.status = "taken"]
  ELSE res

CheckDomainHttp ==
  /\ hpc = "http" /\ tool = "check_domain"
  /\ IF args.verify_http /\ server.config.enableHttpVerification
        /\ hresult.status \in {"taken", "unknown", "available"}
       THEN \E httpResult \in VerifyResults :
              /\ hresult' = IF hresult.status = "available"
                             THEN CheckMergeAvailable(hresult, httpResult)
                             ELSE CheckMergeRegistered(hresult, httpResult, hist.rdapResult)
              /\ hist' = [hist EXCEPT !.httpRan = TRUE, !.http = httpResult.status,
                                      !.preHttp = hresult.status,
                                      !.network = @ \cup {"http"}]
       ELSE /\ hresult' = hresult
            /\ hist' = [hist EXCEPT !.preHttp = hresult.status]
  /\ hpc' = "returned"
  /\ UNCHANGED <<server, tool, args, normalizedDomain, isError, search, probeVars, blockVars, classVars, bulkVars, repeatVars, deadlineVars, pageVars, retryVars>>

(***************************************************************************)
(* handleSearchDomains.  search.rdap: the registry queries made so far and *)
(* their results, in the order of domainsToCheck; search.priced: how many  *)
(* TLDs the pricing loop has done; search.results: the entries built, each *)
(* with the status it had before the aftermarket upgrade (base).           *)
(***************************************************************************)
KeywordArgs == {StringArg("Shop"), StringArg("-shop"), NonStringArg}
TldLists == {<<"com">>, <<".COM", "example">>}

\* tld.toLowerCase().replace(/^\./, '')
NormalizeTld(tld) ==
  IF StartsWith(tld, ".") THEN toLowerCase(SubSeq(tld, 2, Len(tld))) ELSE toLowerCase(tld)

SearchStart ==
  /\ hpc = "idle"
  /\ \E k \in KeywordArgs, tlds \in TldLists, a \in BOOLEAN :
       \E validated \in {validateKeyword(k)} :
         /\ args' = [NoArgs EXCEPT !.include_aftermarket = a]
         /\ hist' = [NoHist EXCEPT !.input = <<k>>]
         /\ IF validated.ok
              THEN /\ search' = [NoSearch EXCEPT
                                   !.tlds = tlds,
                                   !.domains = [i \in 1..Len(tlds) |->
                                                  validated.value \o "." \o NormalizeTld(tlds[i])]]
                   /\ isError' = FALSE
                   /\ hpc' = "search_rdap"
              ELSE /\ search' = NoSearch
                   /\ isError' = TRUE
                   /\ hpc' = "returned"
  /\ tool' = "search_domains"
  /\ normalizedDomain' = ""
  /\ hresult' = NoResult
  /\ UNCHANGED <<server, probeVars, blockVars, classVars, bulkVars, repeatVars, deadlineVars, pageVars, retryVars>>

\* rdapService.checkBulk: one checkDomain after the other
SearchRdap ==
  /\ hpc = "search_rdap"
  /\ \E cache \in BootstrapCaches, fetched \in RdapFetches :
       \E d \in {search.domains[Len(search.rdap) + 1]} :
         search' = [search EXCEPT
                      !.rdap = Append(@, [query |-> RdapQuery(d, cache, fetched),
                                          result |-> checkDomain(d, cache, fetched)])]
  /\ hpc' = IF Len(search.rdap) + 1 = Len(search.domains) THEN "search_pricing" ELSE hpc
  /\ hist' = [hist EXCEPT !.network = @ \cup {"registry"}]
  /\ UNCHANGED <<server, tool, args, normalizedDomain, hresult, isError, probeVars, blockVars, classVars, bulkVars, repeatVars, deadlineVars, pageVars, retryVars>>

\* the pricing loop: one getTldPricing call per TLD, kept in pricingCache
SearchPricing ==
  /\ hpc = "search_pricing"
  /\ \E pricing \in (IF Len(server.pricingProviders) > 0 THEN ProviderPricingAnswers
                     ELSE IF server.namecheapService THEN NamecheapPricingAnswers
                     ELSE {"skipped"}) :
       /\ hist' = [hist EXCEPT !.network = IF pricing = "skipped" THEN @
                                            ELSE @ \cup {"pricing"}]
       /\ IF pricing = "throws"
         THEN HandlerThrows /\ UNCHANGED search
         ELSE /\ search' = [search EXCEPT
                              !.priced = @ + 1,
                              !.pricingCache =
                                 IF pricing = "pricing"
                                   THEN @ \cup {NormalizeTld(search.tlds[search.priced + 1])}
                                   ELSE @]
              /\ hpc' = IF search.priced + 1 = Len(search.tlds)
                          THEN "search_aftermarket" ELSE hpc
              /\ UNCHANGED <<hresult, isError>>
  /\ UNCHANGED <<server, tool, args, normalizedDomain, probeVars, blockVars, classVars, bulkVars, repeatVars, deadlineVars, pageVars, retryVars>>

\* a result entry whose listing upgrades whatever the registry said; against
\* it C28_SearchStatusAsLookupWithoutHttp fails
SearchEntryListedWins(d, rdapEntry, pricingCache, listed) ==
  [domain |-> d,
   rdap |-> rdapEntry.query,
   base |-> ApplyRdap("unknown", rdapEntry.result),
   status |-> IF d \in listed THEN "for_sale" ELSE ApplyRdap("unknown", rdapEntry.result),
   pricing |-> TldOf(d) \in pricingCache,
   aftermarket |-> d \in listed]

\* one entry of the result list ("Build results")
SearchEntry(d, rdapEntry, pricingCache, listed) ==
  [domain |-> d,
   rdap |-> rdapEntry.query,
   base |-> ApplyRdap("unknown", rdapEntry.result),
   status |-> IF d \in listed /\ ApplyRdap("unknown", rdapEntry.result) = "taken"
                THEN "for_sale" ELSE ApplyRdap("unknown", rdapEntry.result),
   pricing |-> TldOf(d) \in pricingCache,
   aftermarket |-> d \in listed]

\* the aftermarket search (the domains it lists) and the result list
SearchAftermarket ==
  /\ hpc = "search_aftermarket"
  /\ \E listed \in (IF args.include_aftermarket /\ Len(server.aftermarketProviders) > 0
                      THEN SUBSET {search.domains[i] : i \in 1..Len(search.domains)}
                      ELSE {{}}) :
       search' = [search EXCEPT
                    !.results = [i \in 1..Len(search.domains) |->
                                   SearchEntry(search.domains[i], search.rdap[i],
                                               search.pricingCache, listed)]]
  /\ hist' = [hist EXCEPT
                !.network = IF args.include_aftermarket /\ Len(server.aftermarketProviders) > 0
                              THEN @ \cup {"aftermarket"} ELSE @]
  /\ hpc' = "returned"
  /\ UNCHANGED <<server, tool, args, normalizedDomain, hresult, isError, probeVars, blockVars, classVars, bulkVars, repeatVars, deadlineVars, pageVars, retryVars>>

(***************************************************************************)
(* handleDetectParking.  search.http: what verifyDomain returned.          *)
(***************************************************************************)
DetectParkingStart ==
  /\ hpc = "idle"
  /\ \E d \in DomainArgs :
       \E validated \in {validateDomain(d)} :
         /\ hist' = [NoHist EXCEPT !.input = <<d>>]
         /\ normalizedDomain' = IF validated.ok THEN validated.value ELSE ""
         /\ isError' = ~validated.ok
         /\ hpc' = IF validated.ok THEN "detect" ELSE "returned"
  /\ tool' = "detect_parking"
  /\ args' = NoArgs
  /\ hresult' = NoResult
  /\ search' = NoSearch
  /\ UNCHANGED <<server, probeVars, blockVars, classVars, bulkVars, repeatVars, deadlineVars, pageVars, retryVars>>

\* const result = await this.httpService.verifyDomain(normalizedDomain), and the reply
DetectParkingHttp ==
  /\ hpc = "detect"
  /\ \E httpResult \in VerifyResults :
       /\ hresult' = [NoResult EXCEPT !.status = httpResult.status,
                                      !.parking = httpResult.parkingDetection # <<>>]
       /\ search' = [search EXCEPT !.http = <<httpResult>>]
       /\ hist' = [hist EXCEPT !.httpRan = TRUE, !.http = httpResult.status,
                               !.network = @ \cup {"http"}]
  /\ hpc' = "returned"
  /\ UNCHANGED <<server, tool, args, normalizedDomain, isError, probeVars, blockVars, classVars, bulkVars, repeatVars, deadlineVars, pageVars, retryVars>>

(***************************************************************************)
(* handleCheckBulk.  search.domains: normalizedDomains; search.given:      *)
(* domains.length; search.registrar: what the Namecheap bulk call did;     *)
(* search.rdap: the registry queries made so far and their results, in the *)
(* order of normalizedDomains; search.results: `results`; search.http and  *)
(* search.probeFailed: what verifyBulk returned for each domain and which  *)
(* of its probes failed; search.bulkResult: the counts of the reply.       *)
(***************************************************************************)
ListArg(list) == [type |-> "array", value |-> list]

BulkArgs ==
  {[type |-> "string", value |-> <<>>],
   ListArg(<<>>),
   ListArg(<<StringArg(" Taken.COM ")>>),
   ListArg(<<StringArg("taken.com"), StringArg("free.com")>>),
   ListArg(<<StringArg("free.com"), StringArg("parked.com"), StringArg("taken.com")>>),
   ListArg(<<StringArg("taken.com"), StringArg("not a domain")>>),
   ListArg([i \in 1..51 |-> StringArg("taken.com")])}

\* what the registry holds: free.com is not registered, every other domain is
WorldRegistry(domain) ==
  IF domain = "free.com" THEN [kind |-> "response", status |-> 404, json |-> "invalid"]
  ELSE [kind |-> "response", status |-> 200, json |-> "object"]

\* the answers with which a registry lookup fails
FailingFetches ==
  {[kind |-> "throws", status |-> 0, json |-> "invalid"],
   [kind |-> "response", status |-> 200, json |-> "invalid"],
   [kind |-> "response", status |-> 500, json |-> "invalid"]}

BulkEntry(domain, status, method) ==
  [domain |-> domain, status |-> status, verificationMethod |-> method, parking |-> FALSE]

\* the checks before the loop, then validateDomain on every element
CheckBulkStart ==
  /\ hpc = "idle" /\ bulkPc = "idle"
  /\ \E list \in BulkArgs, h \in BOOLEAN :
       \E checked \in {IF list.type = "array" /\ Len(list.value) <= 50
                         THEN [i \in 1..Len(list.value) |-> validateDomain(list.value[i])]
                         ELSE <<>>} :
         /\ args' = [NoArgs EXCEPT !.verify_http = h]
         /\ hist' = [NoHist EXCEPT !.input = <<list>>]
         /\ IF /\ list.type = "array"
               /\ Len(list.value) > 0
               /\ Len(list.value) <= 50
               /\ \A i \in 1..Len(checked) : checked[i].ok
              THEN /\ search' = [NoSearch EXCEPT
                                   !.domains = [i \in 1..Len(checked) |-> checked[i].value],
                                   !.given = Len(list.value)]
                   /\ isError' = FALSE
                   /\ hpc' = "bulk_registrar"
              ELSE /\ search' = NoSearch
                   /\ isError' = TRUE
                   /\ hpc' = "returned"
  /\ tool' = "check_bulk"
  /\ normalizedDomain' = ""
  /\ hresult' = NoResult
  /\ UNCHANGED <<server, probeVars, blockVars, classVars, bulkVars, repeatVars, deadlineVars, pageVars, retryVars>>

\* namecheapService.checkBulk for one chunk (at most 50 domains): "items" (the
\* reply lists every domain), "api_error" (a reply with Status="ERROR": every
\* domain read as not available), "failed" (the request failed: the catch gives
\* every domain unknown), "no_items" (a reply without DomainCheckResult)
NamecheapBulkAnswers(n) ==
  {[kind |-> "items", statuses |-> st] : st \in [1..n -> {"available", "taken"}]}
  \cup {[kind |-> "items", statuses |-> [i \in 1..n |-> "premium"]]}
  \cup {[kind |-> k, statuses |-> <<>>] : k \in {"api_error", "failed", "no_items"}}

NamecheapCheckBulk(domains, answer) ==
  IF answer.kind = "no_items" THEN <<>>
  ELSE [i \in 1..Len(domains) |->
          BulkEntry(toLowerCase(domains[i]),
                    IF answer.kind = "items" THEN answer.statuses[i]
                    ELSE IF answer.kind = "api_error" THEN "taken"
                    ELSE "unknown",
                    "registrar_api")]

\* "Use Namecheap bulk API if available"
CheckBulkRegistrar ==
  /\ hpc = "bulk_registrar"
  /\ IF server.namecheapService
       THEN \E answer \in NamecheapBulkAnswers(Len(search.domains)) :
              \E listed \in {NamecheapCheckBulk(search.domains, answer)} :
                /\ search' = [search EXCEPT !.results = listed, !.registrar = answer.kind]
                /\ hpc' = IF Len(listed) = 0 THEN "bulk_rdap" ELSE "bulk_http"
       ELSE /\ search' = search
            /\ hpc' = "bulk_rdap"
  /\ hist' = [hist EXCEPT !.network = IF server.namecheapService THEN @ \cup {"registrar"}
                                      ELSE @]
  /\ UNCHANGED <<server, tool, args, normalizedDomain, hresult, isError, probeVars, blockVars, classVars, bulkVars, repeatVars, deadlineVars, pageVars, retryVars>>

\* variant: one failed lookup leaves every entry unknown
RdapEntryStatusAllOrNothing(rdap, i) ==
  IF \E j \in 1..Len(rdap) : rdap[j].result.error THEN "unknown"
  ELSE ApplyRdap("unknown", rdap[i].result)

\* the status of the entry built from rdapResults.get(domain)
RdapEntryStatus(rdap, i) == ApplyRdap("unknown", rdap[i].result)

\* "Fall back to RDAP": rdapService.checkBulk, one checkDomain after the other,
\* and after the last one the loop that builds the entries
CheckBulkRdap ==
  /\ hpc = "bulk_rdap"
  /\ \E d \in {search.domains[Len(search.rdap) + 1]}, cache \in BootstrapCaches :
       \E fetched \in {WorldRegistry(d)} \cup FailingFetches :
         \E rdap \in {Append(search.rdap, [query |-> RdapQuery(d, cache, fetched),
                                           result |-> checkDomain(d, cache, fetched)])} :
           IF Len(rdap) = Len(search.domains)
             THEN /\ search' = [search EXCEPT
                                  !.rdap = rdap,
                                  !.results = [i \in 1..Len(rdap) |->
                                                 BulkEntry(search.domains[i],
                                                           RdapEntryStatus(rdap, i), "rdap")]]
                  /\ hpc' = "bulk_http"
             ELSE /\ search' = [search EXCEPT !.rdap = rdap]
                  /\ hpc' = hpc
  /\ hist' = [hist EXCEPT !.network = @ \cup {"registry"}]
  /\ UNCHANGED <<server, tool, args, normalizedDomain, hresult, isError, probeVars, blockVars, classVars, bulkVars, repeatVars, deadlineVars, pageVars, retryVars>>

\* the counts of BulkCheckResult
BulkCounts(entries) ==
  [totalChecked |-> Len(entries),
   available |-> Cardinality({i \in 1..Len(entries) : entries[i].status = "available"}),
   taken |-> Cardinality({i \in 1..Len(entries) : entries[i].status = "taken"}),
   parked |-> Cardinality({i \in 1..Len(entries) : entries[i].status = "parked"}),
   forSale |-> Cardinality({i \in 1..Len(entries) : entries[i].status = "for_sale"})]

\* "HTTP verification for smaller batches": verifyBulk is called, or the reply is built
CheckBulkHttp ==
  /\ hpc = "bulk_http"
  /\ IF args.verify_http /\ server.config.enableHttpVerification /\ search.given <= 20
       THEN /\ VerifyBulkEnter(search.domains)
            /\ hpc' = "bulk_verify"
            /\ hist' = [hist EXCEPT !.httpRan = TRUE, !.network = @ \cup {"http"}]
            /\ search' = search
       ELSE /\ UNCHANGED bulkVars
            /\ hpc' = "returned"
            /\ hist' = hist
            /\ search' = [search EXCEPT !.bulkResult = <<BulkCounts(search.results)>>]
  /\ UNCHANGED <<server, tool, args, normalizedDomain, hresult, isError, probeVars, blockVars, classVars, repeatVars, deadlineVars, pageVars, retryVars>>

\* the merge of httpResults.get(result.domain) into one entry
CheckBulkMerge(res, httpResult) ==
  IF httpResult.status = "taken" THEN [res EXCEPT !.status = "taken"]
  ELSE IF httpResult.status = "parked" \/ httpResult.status = "for_sale"
    THEN [res EXCEPT !.status = httpResult.status,
                     !.parking = httpResult.parkingDetection # <<>>]
  ELSE IF httpResult.status = "available" /\ res.status # "available"
    THEN [res EXCEPT !.status = "available"]
  ELSE res

\* verifyBulk returned: the merge loop and the reply
CheckBulkVerified ==
  /\ hpc = "bulk_verify" /\ bulkPc = "done"
  /\ \E merged \in {[i \in 1..Len(search.results) |->
                       IF search.results[i].domain \in DOMAIN results
                         THEN CheckBulkMerge(search.results[i],
                                             results[search.results[i].domain])
                         ELSE search.results[i]]} :
       search' = [search EXCEPT
                    !.results = merged,
                    !.http = [i \in 1..Len(search.domains) |-> results[search.domains[i]]],
                    !.probeFailed = bulkHist.failed,
                    !.bulkResult = <<BulkCounts(merged)>>]
  /\ VerifyBulkLeave
  /\ hpc' = "returned"
  /\ UNCHANGED <<server, tool, args, normalizedDomain, hresult, isError, hist, probeVars, blockVars, classVars, repeatVars, deadlineVars, pageVars, retryVars>>

\* verifyBulk on its own, and check_bulk with the verifyBulk call it makes
BulkNext ==
  \/ VerifyBulkCall \/ ChunkStart \/ ProbeSettles \/ ChunkCollected \/ DelayElapsed
  \/ VerifyBulkDone
  \/ CheckBulkStart \/ CheckBulkRegistrar \/ CheckBulkRdap \/ CheckBulkHttp
  \/ CheckBulkVerified \/ HandlerReturn

(***************************************************************************)
(* RdapService.checkBulk on its own (SpecRdapBulk).  It runs in the        *)
(* variables of the bulk prober:                                           *)
(*   bulkPc      "idle"; "next" (at the top of the for loop); "query"      *)
(*               (checkDomain awaits the answer to its registry query);    *)
(*               "delay" (awaiting this.delay(100)); "done" (returned)     *)
(*   bulkDomains the domains argument                                      *)
(*   chunkIdx    the position of the loop in domains                       *)
(*   inFlight    the positions whose registry query is awaiting its answer *)
(*   results     the Map the call builds                                   *)
(*   bulkHist    settled: the positions whose checkDomain returned;        *)
(*               failed: those among them whose result carries an error;   *)
(*               delays: the delays elapsed; maxInFlight: the largest      *)
(*               number of queries that were in flight together            *)
(***************************************************************************)
MaxRdapDomains == 3
RdapBulkDomains == {"site1.example", "free.com"}
RdapBulkInputs == UNION {[1..n -> RdapBulkDomains] : n \in 0..MaxRdapDomains}

\* a checkBulk that keeps only the results without an error
SetResultIfAnswered(map, domain, result) ==
  IF result.error THEN map
  ELSE [d \in DOMAIN map \cup {domain} |-> IF d = domain THEN result ELSE map[d]]

\* results.set(domain, result)
SetResult(map, domain, result) ==
  [d \in DOMAIN map \cup {domain} |-> IF d = domain THEN result ELSE map[d]]

\* checkDomain returned `result` for the domain at chunkIdx: results.set, then
\* await this.delay(100)
RdapQueryReturns(result) ==
  /\ results' = SetResult(results, bulkDomains[chunkIdx], result)
  /\ inFlight' = {}
  /\ bulkPc' = "delay"
  /\ bulkHist' = [bulkHist EXCEPT
                    !.settled = @ \cup {chunkIdx},
                    !.failed = IF result.error THEN @ \cup {chunkIdx} ELSE @]

\* checkBulk(domains) up to the for loop
RdapBulkCall ==
  /\ bulkPc = "idle"
  /\ \E domains \in RdapBulkInputs :
       /\ bulkDomains' = domains
       /\ bulkPc' = IF Len(domains) = 0 THEN "done" ELSE "next"
  /\ chunkIdx' = 1
  /\ inFlight' = {}
  /\ results' = <<>>
  /\ bulkHist' = NoBulkHist
  /\ UNCHANGED <<chunkResults, probeVars, blockVars, classVars, serverVars, repeatVars, deadlineVars, pageVars, retryVars>>

\* const result = await this.checkDomain(domain), up to its fetchIPv4 call: the
\* query is sent, or checkDomain returns at once (no RDAP server for the TLD)
RdapQueryStart ==
  /\ bulkPc = "next"
  /\ \E cache \in BootstrapCaches :
       IF getRdapServer(TldOf(Trim(toLowerCase(bulkDomains[chunkIdx]))), cache)
         THEN /\ inFlight' = inFlight \cup {chunkIdx}
              /\ bulkPc' = "query"
              /\ results' = results
              /\ bulkHist' = [bulkHist EXCEPT
                                !.maxInFlight = IF Cardinality(inFlight) + 1 > @
                                                  THEN Cardinality(inFlight) + 1 ELSE @]
         ELSE RdapQueryReturns(checkDomain(bulkDomains[chunkIdx], cache, NoFetch))
  /\ UNCHANGED <<bulkDomains, chunkIdx, chunkResults, probeVars, blockVars, classVars, serverVars, repeatVars, deadlineVars, pageVars, retryVars>>

\* the registry query was answered, or failed: the rest of checkDomain
RdapQueryAnswered ==
  /\ bulkPc = "query"
  /\ \E fetched \in RdapFetches :
       RdapQueryReturns(checkDomain(bulkDomains[chunkIdx], {"com", "example"}, fetched))
  /\ UNCHANGED <<bulkDomains, chunkIdx, chunkResults, probeVars, blockVars, classVars, serverVars, repeatVars, deadlineVars, pageVars, retryVars>>

\* the delay elapsed: the next domain, or return results
RdapDelayElapsed ==
  /\ bulkPc = "delay"
  /\ bulkHist' = [bulkHist EXCEPT !.delays = @ + 1]
  /\ IF chunkIdx < Len(bulkDomains)
       THEN chunkIdx' = chunkIdx + 1 /\ bulkPc' = "next"
       ELSE chunkIdx' = chunkIdx /\ bulkPc' = "done"
  /\ UNCHANGED <<bulkDomains, inFlight, results, chunkResults, probeVars, blockVars, classVars, serverVars, repeatVars, deadlineVars, pageVars, retryVars>>

\* the caller took the map
RdapBulkDone ==
  /\ bulkPc = "done"
  /\ bulkPc' = "idle"
  /\ UNCHANGED <<bulkDomains, chunkIdx, inFlight, results, bulkHist, chunkResults, probeVars, blockVars, classVars, serverVars, repeatVars, deadlineVars, pageVars, retryVars>>

RdapBulkNext ==
  \/ RdapBulkCall \/ RdapQueryStart \/ RdapQueryAnswered \/ RdapDelayElapsed
  \/ RdapBulkDone

ServerNext ==
  \/ LookupStart \/ LookupRdap \/ LookupPricing \/ LookupAftermarket \/ LookupHttp
  \/ CheckDomainStart \/ CheckDomainRdap \/ CheckDomainPricing \/ CheckDomainHttp
  \/ SearchStart \/ SearchRdap \/ SearchPricing \/ SearchAftermarket
  \/ DetectParkingStart \/ DetectParkingHttp
  \/ CheckBulkStart \/ CheckBulkRegistrar \/ CheckBulkRdap \/ CheckBulkHttp
  \/ ChunkStart \/ ProbeSettles \/ ChunkCollected \/ DelayElapsed \/ CheckBulkVerified
  \/ HandlerReturn

(***************************************************************************)
(* One hop of tryFetch in time.  The clock counts ticks since the hop      *)
(* started; the timer set by setTimeout(() => controller.abort(),          *)
(* this.timeout) is due at HopTimeout.                                     *)
(*   dpc      "idle", "fetch" (await fetchIPv4), "read" (await             *)
(*            reader.read() in readResponseWithLimit), "returned"          *)
(*   timer    "none", "armed", "cleared" (clearTimeout), "fired"           *)
(*   dchunks  the chunks read so far                                       *)
(*   dresult  the status tryFetch returned                                 *)
(* When the headers come, when a chunk comes and when the body ends is up  *)
(* to the host: it may stop sending at any point.                          *)
(***************************************************************************)
HopTimeout == 2
MaxClock == 6

HopIdle ==
  dpc = "idle" /\ timer = "none" /\ clock = 0 /\ dchunks = 0 /\ dresult = <<>>

HopReturns(status) ==
  /\ dpc' = "returned"
  /\ dresult' = <<status>>

\* const timeoutId = setTimeout(...); const response = await fetchIPv4(url, ...)
HopStart ==
  /\ dpc = "idle"
  /\ dpc' = "fetch" /\ timer' = "armed" /\ clock' = 0 /\ dchunks' = 0 /\ dresult' = <<>>
  /\ UNCHANGED <<probeVars, blockVars, classVars, bulkVars, serverVars, repeatVars, pageVars, retryVars>>

\* time passes while the hop waits; a timer that is due runs before the clock
\* moves on
Tick ==
  /\ dpc \in {"fetch", "read"}
  /\ clock < MaxClock
  /\ timer = "armed" => clock < HopTimeout
  /\ clock' = clock + 1
  /\ UNCHANGED <<dpc, timer, dchunks, dresult>>
  /\ UNCHANGED <<probeVars, blockVars, classVars, bulkVars, serverVars, repeatVars, pageVars, retryVars>>

\* the timer callback: controller.abort() rejects the pending fetch, and the
\* catch returns unknown for the 'abort' message
TimerFires ==
  /\ timer = "armed" /\ clock >= HopTimeout
  /\ dpc \in {"fetch", "read"}
  /\ timer' = "fired"
  /\ HopReturns("unknown")
  /\ UNCHANGED <<clock, dchunks>>
  /\ UNCHANGED <<probeVars, blockVars, classVars, bulkVars, serverVars, repeatVars, pageVars, retryVars>>

\* fetchIPv4 rejects (DNS, connection, certificate): the catch returns unknown
FetchFails ==
  /\ dpc = "fetch"
  /\ HopReturns("unknown")
  /\ UNCHANGED <<timer, clock, dchunks>>
  /\ UNCHANGED <<probeVars, blockVars, classVars, bulkVars, serverVars, repeatVars, pageVars, retryVars>>

\* the response headers arrived: clearTimeout(timeoutId), then the redirect
\* and content-type branches; a text/html response goes on to read the body
HeadersArrive ==
  /\ dpc = "fetch"
  /\ timer' = "cleared"
  /\ \E contentType \in ContentTypes :
       IF Includes(contentType, "text/html")
         THEN dpc' = "read" /\ dresult' = dresult
         ELSE HopReturns("taken")
  /\ UNCHANGED <<clock, dchunks>>
  /\ UNCHANGED <<probeVars, blockVars, classVars, bulkVars, serverVars, repeatVars, pageVars, retryVars>>

\* reader.read() resolves with a chunk
ChunkArrives ==
  /\ dpc = "read" /\ dchunks < MaxChunks
  /\ dchunks' = dchunks + 1
  /\ UNCHANGED <<dpc, timer, clock, dresult>>
  /\ UNCHANGED <<probeVars, blockVars, classVars, bulkVars, serverVars, repeatVars, pageVars, retryVars>>

\* reader.read() resolves with done (or the cap is passed, or the read throws):
\* the text is classified and tryFetch returns
BodyEnds ==
  /\ dpc = "read"
  /\ \E status \in {"taken", "parked", "for_sale"} : HopReturns(status)
  /\ UNCHANGED <<timer, clock, dchunks>>
  /\ UNCHANGED <<probeVars, blockVars, classVars, bulkVars, serverVars, repeatVars, pageVars, retryVars>>

\* the caller took the result
HopDone ==
  /\ dpc = "returned"
  /\ dpc' = "idle" /\ timer' = "none" /\ clock' = 0 /\ dchunks' = 0 /\ dresult' = <<>>
  /\ UNCHANGED <<probeVars, blockVars, classVars, bulkVars, serverVars, repeatVars, pageVars, retryVars>>

HopNext ==
  \/ HopStart \/ Tick \/ TimerFires \/ FetchFails
  \/ HeadersArrive \/ ChunkArrives \/ BodyEnds \/ HopDone

(***************************************************************************)
(* NamecheapAuctionsProvider.searchListings on its own (SpecListings).     *)
(* Every request is for page 1 of the keywords; what tells two requests    *)
(* apart is params.cursor.  pager is                                       *)
(*   pc          "idle"; "loop" (at the while test); "await" (fetchApi is  *)
(*               pending); "returned"                                      *)
(*   maxResults  options.maxResults || 50                                  *)
(*   hasMore, cursor   the local variables ("" : undefined)                *)
(*   sent        params.cursor ("" : not set)                              *)
(*   count       listings.length; returned: the length of the listings     *)
(*               returned                                                  *)
(*   asked       the values of params.cursor requests were sent with       *)
(*   repeated    a request was sent with the params of an earlier one      *)
(***************************************************************************)
MaxResultsValues == {1, 3}
Cursors == {"", "c1", "c2"}
MaxPageItems == 2

\* what fetchApi('/sales', params) does: it throws (network failure, timeout,
\* non-2xx, a body that is not JSON or has no items array), or resolves with a
\* page of which `accepted` items pass the client-side filters
PageAnswers ==
  {[kind |-> "throws", accepted |-> 0, hasMore |-> FALSE, cursor |-> ""]}
  \cup [kind : {"page"}, accepted : 0..MaxPageItems, hasMore : BOOLEAN, cursor : Cursors]

NoPager ==
  [pc |-> "idle", maxResults |-> 0, hasMore |-> FALSE, cursor |-> "", sent |-> "",
   count |-> 0, returned |-> 0, asked |-> {}, repeated |-> FALSE]

PagerIdle == pager = NoPager

\* while (hasMore && listings.length < maxResults)
Continues(p) == p.hasMore /\ p.count < p.maxResults

\* if (cursor) params.cursor = cursor
NextParamsCursor(p) == IF p.cursor # "" THEN p.cursor ELSE p.sent

\* searchListings(query, options) up to the while loop
SearchListingsCall ==
  /\ pager.pc = "idle"
  /\ \E configured \in BOOLEAN, maxResults \in MaxResultsValues :
       pager' = IF configured
                  THEN [NoPager EXCEPT !.pc = "loop", !.maxResults = maxResults,
                                       !.hasMore = TRUE]
                  ELSE [NoPager EXCEPT !.pc = "returned", !.maxResults = maxResults]
  /\ UNCHANGED <<probeVars, blockVars, classVars, bulkVars, serverVars, repeatVars, deadlineVars, retryVars>>

\* the while test, and the request of the next page or the return
PageRequest ==
  /\ pager.pc = "loop"
  /\ pager' = IF Continues(pager)
                THEN [pager EXCEPT
                        !.pc = "await",
                        !.sent = NextParamsCursor(pager),
                        !.asked = @ \cup {NextParamsCursor(pager)},
                        !.repeated = @ \/ NextParamsCursor(pager) \in pager.asked]
                ELSE [pager EXCEPT !.pc = "returned", !.returned = pager.count]
  /\ UNCHANGED <<probeVars, blockVars, classVars, bulkVars, serverVars, repeatVars, deadlineVars, retryVars>>

\* fetchApi settled: the for loop over response.items, or the catch block
PageAnswered ==
  /\ pager.pc = "await"
  /\ \E answer \in PageAnswers :
       pager' = IF answer.kind = "throws"
                  THEN [pager EXCEPT !.pc = "returned", !.returned = 0]
                  ELSE [pager EXCEPT
                          !.pc = "loop",
                          !.count = Min({pager.maxResults, @ + answer.accepted}),
                          !.hasMore = answer.hasMore,
                          !.cursor = answer.cursor]
  /\ UNCHANGED <<probeVars, blockVars, classVars, bulkVars, serverVars, repeatVars, deadlineVars, retryVars>>

\* the caller took the result
SearchListingsDone ==
  /\ pager.pc = "returned"
  /\ pager' = NoPager
  /\ UNCHANGED <<probeVars, blockVars, classVars, bulkVars, serverVars, repeatVars, deadlineVars, retryVars>>

ListingsNext == SearchListingsCall \/ PageRequest \/ PageAnswered \/ SearchListingsDone

vars == <<probeVars, blockVars, classVars, bulkVars, serverVars, repeatVars, deadlineVars, pageVars, retryVars>>

\* the tool handlers, for every configuration
Init == ProbeInit /\ BlockInit /\ ClassInit /\ BulkInit /\ RepeatIdle /\ HopIdle /\ PagerIdle /\ RetryIdle /\ ServerInit
Spec == Init /\ [][ServerNext]_vars

\* verifyDomain on its own
InitProbe ==
  /\ ProbeInit /\ BlockInit /\ ClassInit /\ BulkInit /\ RepeatIdle /\ HopIdle /\ PagerIdle /\ RetryIdle /\ ServerIdle
  /\ server = Construct(CHOOSE c \in Configs : TRUE)
SpecProbe == InitProbe /\ [][ProbeNext]_vars

\* the same with the record of the failed fetch
SpecRetry == InitProbe /\ [][RetryNext]_vars

\* isBlockedDomain on its own
SpecBlock == InitProbe /\ [][BlockNext]_vars

\* analyzeHtml on its own
SpecClassify == InitProbe /\ [][ClassNext]_vars

\* verifyBulk and check_bulk: with and without the Namecheap service and with
\* HTTP verification enabled and disabled
BulkConfigs == {c \in Configs : c.tldListApiKey = "" /\ c.namecheap # "token"}
InitBulk ==
  /\ ProbeInit /\ BlockInit /\ ClassInit /\ BulkInit /\ RepeatIdle /\ HopIdle /\ PagerIdle /\ RetryIdle /\ ServerIdle
  /\ server \in {Construct(c) : c \in BulkConfigs}
SpecBulk == InitBulk /\ [][BulkNext]_vars

\* two lookup_domain calls in one unchanging world
InitRepeat ==
  /\ ProbeInit /\ BlockInit /\ ClassInit /\ BulkInit /\ HopIdle /\ PagerIdle /\ RetryIdle /\ ServerIdle
  /\ server \in {Construct(c) : c \in RepeatConfigs}
  /\ world \in Worlds /\ prev = NoPrev /\ providerCache = NoProviderCache
SpecRepeat == InitRepeat /\ [][RepeatNext]_vars

\* the pricing step on its own, for every configuration
InitPricing ==
  /\ ProbeInit /\ BlockInit /\ ClassInit /\ BulkInit /\ RepeatIdle /\ HopIdle /\ PagerIdle /\ RetryIdle /\ ServerInit
SpecPricing == InitPricing /\ [][PricingNext]_vars

\* the merge of the listings on its own, for every configuration
InitMerge ==
  /\ ProbeInit /\ BlockInit /\ ClassInit /\ BulkInit /\ RepeatIdle /\ HopIdle /\ PagerIdle /\ RetryIdle /\ ServerInit
SpecMerge == InitMerge /\ [][MergeNext]_vars

InitRdapBulk ==
  /\ ProbeInit /\ BlockInit /\ ClassInit /\ BulkInit /\ RepeatIdle /\ HopIdle /\ PagerIdle /\ RetryIdle /\ ServerInit
SpecRdapBulk == InitRdapBulk /\ [][RdapBulkNext]_vars

\* one searchListings call after the other: the loop goes on when it can, and
\* every request is settled (answered, or failed at the latest on the timeout
\* of fetchApi)
InitListings ==
  /\ ProbeInit /\ BlockInit /\ ClassInit /\ BulkInit /\ RepeatIdle /\ HopIdle /\ PagerIdle /\ RetryIdle /\ ServerInit
SpecListings ==
  InitListings /\ [][ListingsNext]_vars /\ WF_vars(PageRequest) /\ WF_vars(PageAnswered)

\* one hop in time: the event loop runs a due timer and the clock does not
\* stop; nothing obliges the host to send
SpecDeadline ==
  InitProbe /\ [][HopNext]_vars /\ WF_vars(Tick) /\ WF_vars(TimerFires) /\ WF_vars(HopDone)

(***************************************************************************)
(* Properties of verifyDomain (SpecProbe).                                 *)
(***************************************************************************)
FinalStatuses == {"unknown", "taken", "parked", "for_sale"}

\* C1: for every hostname the blocklist matches, verifyDomain returns status
\* unknown and issues no network call: it returns at once, no scheme attempt
\* starts and the count of fetchIPv4 calls of that call stays at zero.
C1_BlockedDomainNoNetwork ==
  (vdomain \in ProbeDomains /\ BlockedHostname(vdomain)) =>
    /\ vpc \in {"done", "idle"}
    /\ vresult = Unknown
    /\ netCalls = 0
    /\ ~att["https"].ran /\ ~att["http"].ran

\* C1 happens: verifyDomain returned for a domain the blocklist matches
C1_Witness ==
  /\ vpc = "done" /\ vdomain = "metadata.google.internal"
  /\ BlockedHostname(vdomain) /\ netCalls = 0 /\ vresult.status = "unknown"

\* C2 as stated: once a 3xx whose resolved Location has a blocked hostname was
\* received, no request goes to that target and verifyDomain returns unknown.
C2_BlockedRedirectEndsProbe ==
  /\ ~reqBlocked
  /\ (vpc = "done" /\ (att["https"].sawBlocked \/ att["http"].sawBlocked)) =>
       vresult.status = "unknown"

\* C2, amended: a 3xx whose resolved Location has a blocked hostname is never
\* followed (no fetchIPv4 call ever goes to a blocked hostname) and ends the
\* scheme attempt that received it with unknown; verifyDomain then returns
\* unknown if that was the http:// attempt, and the outcome of the http://
\* fallback (unknown, taken, parked or for_sale) if it was the https:// attempt.
C2_BlockedRedirectEndsAttempt ==
  /\ ~reqBlocked
  /\ \A s \in Schemes :
       att[s].sawBlocked => (att[s].last = "blocked" /\ att[s].out = <<Unknown>>)
  /\ (vpc = "done" /\ att["http"].sawBlocked) => vresult = Unknown
  /\ (vpc = "done" /\ att["https"].sawBlocked) =>
       /\ att["http"].ran
       /\ att["http"].out = <<vresult>>
       /\ vresult.status \in FinalStatuses

\* C2 happens: the https:// attempt got a redirect to a blocked hostname, and
\* verifyDomain returned what the http:// fallback found, a live site
C2_Witness ==
  /\ vpc = "done" /\ att["https"].sawBlocked /\ att["https"].out = <<Unknown>>
  /\ ~reqBlocked /\ vresult.status = "taken"

C10_HttpsFirstThenHttp ==
  /\ vpc = "https" =>
       /\ att["https"].ran /\ att["https"].out = <<>>
       /\ ~att["http"].ran /\ att["http"].calls = 0
  /\ vpc = "http" =>
       /\ att["https"].out # <<>> /\ att["https"].out[1].status = "unknown"
       /\ att["http"].ran
  /\ (vpc = "done" /\ ~BlockedHostname(vdomain)) =>
       /\ att["https"].ran /\ att["https"].out # <<>>
       /\ att["http"].ran <=> att["https"].out[1].status = "unknown"
       /\ IF att["http"].ran
            THEN att["http"].out = <<vresult>>
            ELSE /\ att["https"].out = <<vresult>>
                 /\ att["http"].calls = 0 /\ att["http"].out = <<>>
                 /\ vresult.status \in {"taken", "parked", "for_sale"}

\* C10 happens: https:// resolved to unknown, the fallback ran and found a
\* brokered page, and verifyDomain returned for_sale
C10_Witness ==
  /\ vpc = "done" /\ ~BlockedHostname(vdomain)
  /\ att["https"].out = <<Unknown>> /\ att["http"].ran /\ att["http"].calls > 0
  /\ vresult.status = "for_sale"

\* C11: within one scheme attempt a chain of up to 5 redirect hops is followed
\* to its final response, and only a chain of more than 5 hops ends the attempt
\* with unknown at the redirect limit.  (Every fetch of an attempt that ended at
\* the limit was answered by a followed redirect, so att[s].calls is the number
\* of redirect hops of its chain.)
C11_ChainOfFiveIsFollowed ==
  \A s \in Schemes : att[s].last = "limit" => att[s].calls > MAX_REDIRECTS

\* C12: when the last answer is a content response, the outcome follows the
\* classification of its body: evidence with isParked and a broker gives
\* for_sale, evidence with isParked and no broker gives parked, and everything
\* else (evidence without isParked, or a body that was not analysed) gives taken.
C12_BodyClassification ==
  (vpc = "done" /\ seen.kind = "content") =>
    /\ vresult.httpStatus = seen.status
    /\ IF seen.analysis # <<>> /\ seen.analysis[1].isParked
         THEN vresult.status =
                (IF seen.analysis[1].broker # NoBroker THEN "for_sale" ELSE "parked")
         ELSE vresult.status = "taken"

\* C12 happens: a text/html body with two generic indicators and no broker was
\* classified and verifyDomain returned parked
C12_Witness ==
  /\ vpc = "done" /\ seen.kind = "content" /\ seen.analysis # <<>>
  /\ seen.analysis[1].isParked /\ seen.analysis[1].broker = NoBroker
  /\ vresult.status = "parked"

\* the last answer was a 3xx whose Location resolved to an unblocked URL
SeenValidRedirect ==
  /\ seen.kind = "redirect" /\ seen.urlCheck # <<>>
  /\ ~BlockedHostname(seen.target.host)

C14_EvidenceIffParked ==
  /\ vresult.parkingDetection # <<>> <=> vresult.status \in {"parked", "for_sale"}
  /\ \A s \in Schemes :
       att[s].out # <<>> =>
         (att[s].out[1].parkingDetection # <<>> <=>
            att[s].out[1].status \in {"parked", "for_sale"})

\* C14 happens: the https:// attempt failed (unknown, no evidence) and the
\* http:// attempt ended on the redirect fast path (parked, with evidence)
C14_Witness ==
  /\ vpc = "done" /\ att["https"].out = <<Unknown>> /\ att["https"].last = "error"
  /\ att["http"].last = "fastpath"
  /\ vresult.status = "parked" /\ vresult.parkingDetection # <<>>

\* the derived fields of a ParkingDetection as C15 gives them
DerivedFields(pd) ==
  /\ pd.isParked <=> (Len(pd.indicators) >= 2 \/ pd.broker # NoBroker)
  /\ pd.confidence = (IF pd.broker # NoBroker /\ Len(pd.indicators) >= 3 THEN "high"
                      ELSE IF Len(pd.indicators) >= 2 THEN "medium"
                      ELSE "low")

\* C15: every evidence value the classifier produces, in body mode (analyzeHtml)
\* and in URL mode (checkUrlForParking), has isParked true iff it has at least
\* two indicators or a broker, and confidence high iff it has a broker and at
\* least three indicators, else medium iff at least two indicators, else low.
C15_DerivedFields ==
  /\ seen.analysis # <<>> => DerivedFields(seen.analysis[1])
  /\ seen.urlCheck # <<>> => DerivedFields(seen.urlCheck[1])

(***************************************************************************)
(* The blocklist (SpecBlock).                                              *)
(***************************************************************************)
\* C3: isBlockedDomain returns true for every hostname of the listed classes
\* (127/8, 10/8, 172.16/12, 192.168/16, 169.254/16, ::1, fe80::/10, fc00::/7,
\* the IPv6 ones also in the bracketed form of a parsed redirect URL, localhost,
\* the metadata hostnames, every hostname ending in .internal), at both places
\* where the prober applies it.
C3_ListedClassesBlocked ==
  (bvia # "none" /\ InListedClass(bhost)) => bverdict

(***************************************************************************)
(* The tool handlers (Spec).                                               *)
(***************************************************************************)
\* the registry query got the answer "no such domain"
RegistryUnregistered(query) == query.kind = "response" /\ query.status = 404
\* the registry query got the answer "registered"
RegistryRegistered(query) ==
  query.kind = "response" /\ query.status = 200 /\ query.json = "object"

\* C5: in lookup_domain the status is available only if the registry lookup
\* itself answered "unregistered" and the HTTP step, when it ran, returned
\* unknown; this holds after every step, so no step after the registry step
\* sets available and no failed registry, provider or HTTP call produces it.
C5_AvailableOnlyFromRegistry ==
  (tool = "lookup_domain" /\ hresult.status = "available") =>
    /\ RegistryUnregistered(hist.rdap)
    /\ hist.base = "available"
    /\ hist.httpRan => hist.http = "unknown"

\* C5 happens: lookup_domain returned available after the pricing provider
\* failed, the aftermarket step ran and the HTTP step ran
C5_Witness ==
  /\ tool = "lookup_domain" /\ hpc = "returned" /\ ~isError
  /\ hresult.status = "available" /\ hist.pricing = "null" /\ hist.httpRan
  /\ Len(server.aftermarketProviders) > 0 /\ args.include_aftermarket

\* the merge table of C6: the status S before the HTTP step and the outcome H
MergeTable(S, H) ==
  IF H \in {"parked", "for_sale"} THEN H
  ELSE IF H = "taken" THEN (IF S = "available" THEN "taken" ELSE S)
  ELSE S

\* C6: in lookup_domain, when the HTTP step ran, the final status is the one
\* the table gives for the status S after steps 1-3 and the HTTP outcome H:
\* H parked or for_sale gives H; H taken gives taken if S is available, else S;
\* H unknown gives S.  Registry available with HTTP taken gives taken; registry
\* taken with a listing and HTTP unknown gives for_sale.
C6_LookupMergeTable ==
  (tool = "lookup_domain" /\ hpc = "returned" /\ ~isError /\ hist.httpRan) =>
    /\ hist.http \in FinalStatuses
    /\ hresult.status = MergeTable(hist.preHttp, hist.http)
    /\ (hist.base = "available" /\ hist.http = "taken") => hresult.status = "taken"
    /\ (hist.base = "taken" /\ hist.listed /\ hist.http = "unknown") =>
         hresult.status = "for_sale"

\* C6 happens: a listed, registered domain (S = for_sale) whose site is live
\* (H = taken) stays for_sale
C6_Witness ==
  /\ tool = "lookup_domain" /\ hpc = "returned" /\ hist.httpRan
  /\ hist.base = "taken" /\ hist.listed /\ hist.preHttp = "for_sale"
  /\ hist.http = "taken" /\ hresult.status = "for_sale"

\* the base status C7 gives for a registry query and its answer
ClaimedBase(query, base) ==
  /\ RegistryUnregistered(query) => base = "available"
  /\ RegistryRegistered(query) => base = "taken"
  /\ query.kind \in {"none", "throws"} => base = "unknown"
  /\ (query.kind = "response" /\ query.status \notin {200, 404}) => base = "unknown"

\* C7: the base status after the registry step is available when the registry
\* reports the domain unregistered, taken when it reports it registered, and
\* unknown for every other answer (no server for the TLD, a response status
\* other than 200/404, a failed request), in lookup_domain, check_domain and
\* search_domains.
C7_BaseStatusFromRegistry ==
  /\ (tool \in {"lookup_domain", "check_domain"} /\ hist.base # "none") =>
       ClaimedBase(hist.rdap, hist.base)
  /\ tool = "search_domains" =>
       \A i \in DOMAIN search.results :
         ClaimedBase(search.results[i].rdap, search.results[i].base)

\* the status the aftermarket step of C8 leaves
Upgraded(status, isListed) ==
  IF isListed /\ status = "taken" THEN "for_sale" ELSE status

\* C8: in lookup_domain and search_domains a non-empty listing set changes the
\* status to for_sale if and only if the status at that point is taken; with
\* available or unknown, or with no listing, the status stays as it was.
C8_AftermarketUpgradesTakenOnly ==
  /\ (tool = "lookup_domain" /\ hpc = "http") =>
       /\ hresult.status = Upgraded(hist.preAftermarket, hist.listed)
       /\ hist.postAftermarket = hresult.status
       /\ hresult.status # hist.preAftermarket <=>
            (hist.listed /\ hist.preAftermarket = "taken")
  /\ tool = "search_domains" =>
       \A i \in DOMAIN search.results :
         /\ search.results[i].status =
              Upgraded(search.results[i].base, search.results[i].aftermarket)
         /\ search.results[i].status # search.results[i].base <=>
              (search.results[i].aftermarket /\ search.results[i].base = "taken")

\* C8 happens: search_domains returned one listed domain that was taken and is
\* now for_sale, and one listed domain that was unknown and still is
C8_Witness ==
  /\ tool = "search_domains" /\ hpc = "returned" /\ Len(search.results) = 2
  /\ search.results[1].aftermarket /\ search.results[1].base = "taken"
  /\ search.results[1].status = "for_sale"
  /\ search.results[2].aftermarket /\ search.results[2].status = "unknown"

QuoteInBand(q) ==
  /\ q.family # 0
  /\ q.hundredths >= 50 * 100 /\ q.hundredths <= 1000000 * 100

\* quotes[i] is the first in-band match of its pattern family on the page
FirstOfFamily(quotes, i) ==
  /\ QuoteInBand(quotes[i])
  /\ \A j \in 1..(i - 1) :
       quotes[j].family = quotes[i].family => ~QuoteInBand(quotes[j])

\* C16: estimatedPrice is only ever a price-pattern match whose amount v has
\* 50 <= v <= 1000000: matches outside the band are skipped, the match kept is
\* the first in-band one of its pattern family, and a page without an in-band
\* match gets no estimatedPrice.  A page quoting only $12,500 gets "$12,500";
\* a page quoting only $3 gets none.
C16_PriceInBand ==
  cmode = "body" =>
    /\ cevidence[1].estimatedPrice # NoPrice =>
         \E i \in DOMAIN cinput :
           /\ cevidence[1].estimatedPrice = cinput[i].text
           /\ FirstOfFamily(cinput, i)
    /\ cevidence[1].estimatedPrice = NoPrice <=>
         (\A i \in DOMAIN cinput : ~QuoteInBand(cinput[i]))
    /\ cinput = <<Quote("$12,500", 1250000, 1)>> =>
         cevidence[1].estimatedPrice = "$12,500"
    /\ cinput = <<Quote("$3", 300, 1)>> => cevidence[1].estimatedPrice = NoPrice

\* C16 happens: a page quotes $3 and then $12,500; the first is skipped and
\* the second is the estimatedPrice
C16_Witness ==
  /\ cmode = "body"
  /\ cinput = <<Quote("$3", 300, 1), Quote("$12,500", 1250000, 1)>>
  /\ cevidence[1].estimatedPrice = "$12,500"

(***************************************************************************)
(* Properties of verifyBulk (SpecBulk).                                    *)
(***************************************************************************)
BulkInputDomains == {bulkDomains[i] : i \in DOMAIN bulkDomains}

\* C17: the map verifyBulk returns has exactly the input domains as its keys,
\* each with one outcome of a probe, whatever the probes' outcomes are
C17_OneEntryPerDomain ==
  bulkPc = "done" =>
    /\ DOMAIN results = BulkInputDomains
    /\ \A d \in BulkInputDomains : results[d] \in {Unknown, SiteOf(d)}

\* C17: twelve distinct domains, some probes failed and some not, twelve entries
C17_Witness ==
  /\ bulkPc = "done"
  /\ Len(bulkDomains) = 12
  /\ Cardinality(DOMAIN results) = 12
  /\ bulkHist.failed # {}
  /\ bulkHist.failed # 1..12

\* C18: never more than five probes in flight, now or earlier in the call
C18_AtMostFiveInFlight ==
  /\ Cardinality(inFlight) <= 5
  /\ bulkHist.maxInFlight <= 5

\* C18: five probes of the second group of twelve domains are in flight
C18_Witness ==
  /\ Len(bulkDomains) = 12
  /\ chunkIdx = 2
  /\ Cardinality(inFlight) = 5

\* the group of the probe with index i, groups of five counted from 1
GroupOf(i) == ((i - 1) \div 5) + 1

\* C19: a probe that has started (in flight or settled) belongs to a group all
\* of whose earlier groups are settled and followed by their pauses
C19_GroupBarrier ==
  \A i \in inFlight \cup bulkHist.settled :
    /\ bulkHist.delays >= GroupOf(i) - 1
    /\ \A j \in DOMAIN bulkDomains :
         GroupOf(j) < GroupOf(i) => j \in bulkHist.settled

\* C19: the first probe of the third group is in flight after two pauses
C19_Witness ==
  /\ 11 \in inFlight
  /\ bulkHist.delays = 2
  /\ 1..10 \subseteq bulkHist.settled

(***************************************************************************)
(* A failed member of a batch (SpecBulk).                                  *)
(***************************************************************************)
\* the last probe of domain d in the list
LastProbeOf(d) == Max({i \in DOMAIN bulkDomains : bulkDomains[i] = d})

\* verifyBulk: the entry of a domain is unknown when its probe failed and is
\* the outcome of its own site otherwise, whatever the other probes did
BulkProbesIsolated ==
  bulkPc = "done" =>
    /\ DOMAIN results = BulkInputDomains
    /\ \A d \in BulkInputDomains :
         results[d] = IF LastProbeOf(d) \in bulkHist.failed THEN Unknown ELSE SiteOf(d)

\* a check_bulk call that passed validation has built its reply
CheckBulkReplied == hpc = "returned" /\ tool = "check_bulk" /\ search.given > 0

\* the entries were built from registry lookups
ViaRegistry == Len(search.rdap) = Len(search.domains)

LookupFailed(i) == search.rdap[i].query \in FailingFetches
ProbeFailed(i) == hist.httpRan /\ i \in search.probeFailed
ProbeAnswered(i) == hist.httpRan /\ i \notin search.probeFailed

\* what the registry alone says of a domain
RegistryOutcome(d) == IF d = "free.com" THEN "available" ELSE "taken"

\* the outcome of member i from its own two sources: the site when its probe
\* answered, else the registry when its lookup answered, else unknown
OwnOutcome(i) ==
  IF ProbeAnswered(i) THEN SiteOf(search.domains[i]).status
  ELSE IF LookupFailed(i) THEN "unknown"
  ELSE RegistryOutcome(search.domains[i])

\* C20 as stated: a member whose probe or lookup failed has an unknown entry,
\* in verifyBulk and in check_bulk, and the call completes
C20_FailedMemberUnknown ==
  /\ BulkProbesIsolated
  /\ CheckBulkReplied =>
       /\ ~isError
       /\ Len(search.results) = Len(search.domains)
       /\ ViaRegistry =>
            \A i \in 1..Len(search.domains) :
              (LookupFailed(i) \/ ProbeFailed(i)) => search.results[i].status = "unknown"

\* C20: a failure touches the failed source of its own member only: verifyBulk
\* gives unknown for a failed probe and the site's outcome for every other one;
\* check_bulk completes with one entry per domain, each with the outcome of its
\* own sources (unknown when its lookup failed and no probe of it answered),
\* whatever failed for the other members
C20_FailedMemberIsolated ==
  /\ BulkProbesIsolated
  /\ CheckBulkReplied =>
       /\ ~isError
       /\ Len(search.results) = Len(search.domains)
       /\ \A i \in 1..Len(search.domains) : search.results[i].domain = search.domains[i]
       /\ ViaRegistry =>
            \A i \in 1..Len(search.domains) : search.results[i].status = OwnOutcome(i)

\* C20: three domains; lookup and probe of the second failed and its entry is
\* unknown, the first and third have their own outcomes
C20_Witness ==
  /\ CheckBulkReplied /\ ViaRegistry /\ ~isError
  /\ search.domains = <<"free.com", "parked.com", "taken.com">>
  /\ LookupFailed(2) /\ ProbeFailed(2)
  /\ ~LookupFailed(1) /\ ~LookupFailed(3) /\ ProbeAnswered(3)
  /\ search.results[1].status = "available"
  /\ search.results[2].status = "unknown"
  /\ search.results[3].status = "taken"

(***************************************************************************)
(* Failures of providers and of validation in the tool handlers (Spec).    *)
(***************************************************************************)
\* a lookup_domain or search_domains call whose argument passed validation
\* has replied
ResolutionReplied ==
  /\ hpc = "returned"
  /\ \/ tool = "lookup_domain" /\ normalizedDomain # ""
     \/ tool = "search_domains" /\ Len(search.domains) > 0

\* C21: whatever the pricing provider and the aftermarket providers do, a
\* lookup_domain or search_domains call that passed validation replies with a
\* normal result, not with an error
C21_ProviderFailureNeverAborts == ResolutionReplied => ~isError

\* the arguments that are well formed: a domain name, a keyword, a list of
\* one to fifty domain names
WellFormedDomains ==
  {StringArg(" Example.COM "), StringArg("shop.example"), StringArg(" Taken.COM "),
   StringArg("taken.com"), StringArg("free.com"), StringArg("parked.com")}
WellFormedInput(name, input) ==
  IF name = "search_domains" THEN input = StringArg("Shop")
  ELSE IF name = "check_bulk"
    THEN /\ input.type = "array"
         /\ Len(input.value) > 0
         /\ Len(input.value) <= 50
         /\ \A i \in 1..Len(input.value) : input.value[i] \in WellFormedDomains
  ELSE input \in WellFormedDomains

\* a call is running or has replied, and its argument was malformed
MalformedCall == hpc # "idle" /\ ~WellFormedInput(tool, hist.input[1])

\* C22: a call with a malformed argument is at its reply at once, the reply
\* carries the error marker, and no service (registry, provider, registrar,
\* HTTP prober) was called and no probe started
C22_ValidationBeforeNetwork ==
  MalformedCall =>
    /\ hpc = "returned"
    /\ isError
    /\ hist.network = {}
    /\ bulkPc = "idle" /\ inFlight = {}

\* C22: check_bulk with one malformed domain among its elements has replied
C22_Witness ==
  /\ hpc = "returned" /\ tool = "check_bulk" /\ isError /\ hist.network = {}
  /\ hist.input[1] = ListArg(<<StringArg("taken.com"), StringArg("not a domain")>>)

(***************************************************************************)
(* Properties of readResponseWithLimit (SpecClassify).                     *)
(***************************************************************************)
RECURSIVE RunsLength(_)
RunsLength(runs) == IF runs = <<>> THEN 0 ELSE Head(runs).count + RunsLength(Tail(runs))

\* the first `length` bytes of the body whose chunks have the sizes given,
\* from chunk k on
RECURSIVE BodyPrefix(_, _, _)
BodyPrefix(sizes, k, length) ==
  IF length = 0 \/ k > Len(sizes) THEN <<>>
  ELSE IF sizes[k] >= length THEN <<[src |-> k, count |-> length]>>
  ELSE <<[src |-> k, count |-> sizes[k]]>> \o BodyPrefix(sizes, k + 1, length - sizes[k])

RECURSIVE BodyLength(_)
BodyLength(sizes) == IF sizes = <<>> THEN 0 ELSE Head(sizes) + BodyLength(Tail(sizes))

\* C23: what readResponseWithLimit hands over is a prefix of the body, at most
\* 1,048,576 bytes long, and the whole body when that is within the cap
C23_PrefixWithinCap ==
  (cmode = "read" /\ cevidence # <<>>) =>
    /\ RunsLength(cevidence[1]) <= 1048576
    /\ cevidence[1] = BodyPrefix(cinput.sizes, 1, RunsLength(cevidence[1]))
    /\ BodyLength(cinput.sizes) <= 1048576 =>
         RunsLength(cevidence[1]) = BodyLength(cinput.sizes)

(***************************************************************************)
(* Content types, blocked targets and deadlines in verifyDomain            *)
(* (SpecProbe).                                                            *)
(***************************************************************************)
\* the Content-Type values whose media type is text/html
TextHtmlTypes == {"text/html; charset=utf-8", "TEXT/HTML"}

\* C24: a content response whose content type is not text/html does not have
\* its body read, and the outcome is taken with the response's status code, no
\* evidence and no redirect URL
C24_OnlyTextHtmlIsRead ==
  (vpc = "done" /\ seen.kind = "content" /\ seen.contentType \notin TextHtmlTypes) =>
    /\ ~seen.bodyRead
    /\ vresult = MkResult("taken", <<>>, seen.status, NoRedirectUrl)

(***************************************************************************)
(* Repeated lookups (SpecRepeat)                                           *)
(***************************************************************************)
\* C25: lookup_domain called again for the same domain with the same toggles,
\* while the registry, the providers and the web site answer as before, sends
\* the same reply as the first call (the model's reply has no timestamp), also
\* when the listing comes from the provider's cache
C25_RepeatedLookupSameReply ==
  \A i \in DOMAIN prev.replies : prev.replies[i] = prev.replies[1]

\* C25 witness: the second call found the listing in the cache, asked no
\* aftermarket API, and replied for_sale as the first call did
C25_Witness ==
  /\ Len(prev.replies) = 2
  /\ prev.cached[2] /\ "aftermarket" \notin prev.network[2]
  /\ "aftermarket" \in prev.network[1]
  /\ prev.replies[2].result.status = "for_sale"
  /\ prev.replies[2].result.aftermarket

(***************************************************************************)
(* HTTP verification switched off (Spec)                                   *)
(***************************************************************************)
\* the call in progress has gone to httpService (verifyDomain or verifyBulk)
HttpProbeIssued == "http" \in hist.network \/ bulkPc # "idle" \/ inFlight # {}

\* C26: with enableHttpVerification false (DISABLE_HTTP_VERIFICATION=true) no
\* call of lookup_domain, check_domain, check_bulk or detect_parking goes to
\* httpService, and neither does a lookup_domain call with include_parking false
C26_NoProbeWhenDisabled ==
  (~server.config.enableHttpVerification
     \/ (tool = "lookup_domain" /\ ~args.include_parking))
    => ~HttpProbeIssued

(***************************************************************************)
(* The counts of a batch reply (SpecBulk)                                  *)
(***************************************************************************)
\* the entries of the reply with one status
EntriesWith(status) == {i \in 1..Len(search.results) : search.results[i].status = status}

\* C27: in a check_bulk reply each count is the number of entries with that
\* status, and the four counts add up to totalChecked, the number of entries
C27_CountsPartitionEntries ==
  (CheckBulkReplied /\ ~isError) =>
    \E counts \in {search.bulkResult[1]} :
      /\ counts.totalChecked = Len(search.results)
      /\ counts.available = Cardinality(EntriesWith("available"))
      /\ counts.taken = Cardinality(EntriesWith("taken"))
      /\ counts.parked = Cardinality(EntriesWith("parked"))
      /\ counts.forSale = Cardinality(EntriesWith("for_sale"))
      /\ counts.available + counts.taken + counts.parked + counts.forSale
           = counts.totalChecked

(***************************************************************************)
(* search_domains against lookup_domain (Spec)                             *)
(***************************************************************************)
\* the status lookup_domain ends with (steps 1, 3 and 4; step 2 attaches prices
\* only) for a registry result, a listing and the HTTP outcomes of step 4, none
\* when the step does not run
LookupStatusFor(rdapResult, isListed, httpResults) ==
  IF httpResults = <<>>
    THEN AftermarketMerge([NoResult EXCEPT !.status = ApplyRdap("unknown", rdapResult)],
                          isListed).status
    ELSE LookupMerge(AftermarketMerge([NoResult EXCEPT
                                         !.status = ApplyRdap("unknown", rdapResult)],
                                      isListed),
                     httpResults[1]).status

SearchReplied == hpc = "returned" /\ tool = "search_domains" /\ ~isError

\* one entry per TLD given, in the order given, for the domain keyword.tld
SearchCrossProduct ==
  /\ Len(search.results) = Len(search.tlds)
  /\ \A i \in 1..Len(search.tlds) :
       search.results[i].domain
         = validateKeyword(hist.input[1]).value \o "." \o NormalizeTld(search.tlds[i])

\* C28 as stated: search_domains replies with one entry per (keyword, TLD)
\* pair in TLD order, and each entry has the status lookup_domain gives the
\* domain for the same registry result, the same listing and the same HTTP
\* outcome, whatever that outcome is
C28_SearchStatusAsLookup ==
  SearchReplied =>
    /\ SearchCrossProduct
    /\ \A i \in 1..Len(search.results) : \A h \in {Unknown, LiveSite, ParkedSite} :
         search.results[i].status
           = LookupStatusFor(search.rdap[i].result, search.results[i].aftermarket, <<h>>)

\* C28 amended: one entry per (keyword, TLD) pair in TLD order, each with the
\* status lookup_domain gives for the same registry result and the same listing
\* when its HTTP step does not run or ends unknown; search_domains makes no
\* HTTP probe
C28_SearchStatusAsLookupWithoutHttp ==
  SearchReplied =>
    /\ SearchCrossProduct
    /\ "http" \notin hist.network
    /\ \A i \in 1..Len(search.results) :
         /\ search.results[i].status
              = LookupStatusFor(search.rdap[i].result, search.results[i].aftermarket, <<>>)
         /\ search.results[i].status
              = LookupStatusFor(search.rdap[i].result, search.results[i].aftermarket,
                                <<Unknown>>)

\* C28 witness: a reply with two entries, the first listed and upgraded to
\* for_sale, the second listed and left available
C28_Witness ==
  /\ SearchReplied /\ Len(search.results) = 2
  /\ search.results[1].status = "for_sale" /\ search.results[1].aftermarket
  /\ search.results[2].status = "available" /\ search.results[2].aftermarket
  /\ search.results[1].domain = "shop.com" /\ search.results[2].domain = "shop.example"

\* the pending hop gets a redirect to a blocked target or a failure of the
\* network: the answers that make the two runs of C29
BlockedRedirects(url) == {r \in Responses : BlockedTarget(url, r)}

\* C29 as stated: for a domain blocked at the start, after a redirect to a
\* blocked target and after a failure of the network (DNS, connect, timeout),
\* verifyDomain returns the one value unknown without evidence, status code
\* or redirect URL
C29_BlockedOrFailedReturnsUnknown ==
  (vpc = "done"
     /\ (BlockedHostname(vdomain)
           \/ \E s \in Schemes : att[s].last \in {"blocked", "error"}))
    => vresult = Unknown

\* C29 amended: a blocked start returns unknown (bare); a hop answered by a
\* redirect to a blocked target and the same hop failing in the network end
\* the scheme attempt with the same bare unknown, so that the two runs go on
\* alike: verifyDomain returns unknown when that was the http:// attempt and
\* the outcome of the http:// fallback when it was the https:// attempt
C29_BlockedAsUnreachable ==
  /\ (vpc = "done" /\ BlockedHostname(vdomain)) => vresult = Unknown
  /\ \A s \in Schemes :
       att[s].last \in {"blocked", "error"} => att[s].out = <<Unknown>>
  /\ vpc \in Schemes =>
       \A r \in BlockedRedirects(vurl), m \in ErrorMessages :
         /\ TryFetchStep(vurl, r).tag = "return"
         /\ TryFetchStep(vurl, r).result = TryFetchStep(vurl, ErrorResponse(m)).result
         /\ TryFetchStep(vurl, r).result = Unknown
  /\ (vpc = "done" /\ att["http"].ran) =>
       (att["https"].out = <<Unknown>> /\ att["http"].out = <<vresult>>)
  /\ (vpc = "done" /\ att["http"].last \in {"blocked", "error"}) => vresult = Unknown

\* C29 witness: the https:// attempt ended at a redirect to a blocked target,
\* the http:// attempt at a failing connection, and verifyDomain returned the
\* bare unknown
C29_Witness ==
  /\ vpc = "done" /\ vresult = Unknown
  /\ att["https"].last = "blocked" /\ att["http"].last = "error"

(***************************************************************************)
(* The deadline of a hop (SpecDeadline)                                    *)
(***************************************************************************)
\* C30: a hop is under its deadline as long as it lasts, the reading of the
\* body included: a hop that started returns, with unknown when the timeout
\* passed first, even when the host stops sending after the headers
C30_HopEventuallyReturns == (dpc \in {"fetch", "read"}) ~> (dpc = "returned")

(***************************************************************************)
(* The cheapest price of a reply (SpecPricing)                             *)
(***************************************************************************)
\* every usable price the registered providers were given, provider after
\* provider in the order of registration, each with its place in that order
RECURSIVE AllPrices(_, _)
AllPrices(answers, i) ==
  IF i > Len(answers) THEN <<>>
  ELSE SelectSeq(answers[i], LAMBDA r : r.valid) \o AllPrices(answers, i + 1)

\* C31: the cheapest price of a lookup_domain reply is the lowest registration
\* price among the prices of all registered pricing providers for the TLD, and
\* of several prices that are equally low the one that comes first (first
\* registered provider, first listed) is taken; without a price there is none
C31_HeadlineIsCheapest ==
  cmode = "pricing" =>
    \E all \in {AllPrices(cinput, 1)} :
      IF all = <<>> THEN cevidence = <<>>
      ELSE \E i \in 1..Len(all) :
             /\ \A j \in 1..Len(all) : all[i].register <= all[j].register
             /\ \A j \in 1..(i - 1) : all[j].register > all[i].register
             /\ cevidence = <<[registrar |-> all[i].registrar,
                               registrationPrice |-> all[i].register]>>

\* C31 witness: TLD-List lists three registrars, the second and the third
\* equally cheap and cheaper than the first, and the reply names the second
C31_Witness ==
  /\ cmode = "pricing" /\ server.pricingProviders = <<"tld-list">>
  /\ Len(cinput[1]) = 3
  /\ \A i \in 1..3 : cinput[1][i].valid
  /\ cinput[1][1].register = 9 /\ cinput[1][2].register = 5 /\ cinput[1][3].register = 5
  /\ cinput[1][2].registrar = "Beta" /\ cinput[1][3].registrar = "Alpha"
  /\ cevidence = <<[registrar |-> "Beta", registrationPrice |-> 5]>>

(***************************************************************************)
(* The merged listings of a search (SpecMerge)                             *)
(***************************************************************************)
\* the listings given for one lower-cased domain, as <<provider, place>> pairs
ListingsFor(key) ==
  {pl \in (DOMAIN cinput) \X (1..MaxListings) :
     pl[2] \in DOMAIN cinput[pl[1]] /\ toLowerCase(cinput[pl[1]][pl[2]].domain) = key}

\* pl comes before qm in the order the listings are merged
Earlier(pl, qm) == pl[1] < qm[1] \/ (pl[1] = qm[1] /\ pl[2] < qm[2])

\* the sequences with the elements of `listings` in another order
Reordered(listings) ==
  {[i \in DOMAIN listings |-> listings[f[i]]] :
     f \in {g \in [DOMAIN listings -> DOMAIN listings] :
              \A i, j \in DOMAIN listings : i # j => g[i] # g[j]}}

\* no two listings of one domain have the same price
PricesDiffer(listings) ==
  \A i, j \in DOMAIN listings :
    (i # j /\ toLowerCase(listings[i].domain) = toLowerCase(listings[j].domain))
      => listings[i].price # listings[j].price

\* C32: the merged listings of search_domains are keyed by lower-cased domain;
\* the entry of a domain has the lowest price listed for it and comes from the
\* first listing with that price (a listing of a higher or equal price never
\* replaces it); when the prices of a domain differ the order in which a
\* provider returns its listings does not change the result
C32_MergeKeepsLowestPrice ==
  cmode = "merge" =>
    \E map \in {cevidence[1]} :
      /\ DOMAIN map = {toLowerCase(cinput[p][i].domain) : <<p, i>> \in ListingsFor("shop.com")
                                                              \cup ListingsFor("shop.io")}
      /\ \A key \in DOMAIN map :
           \E pl \in ListingsFor(key) :
             /\ map[key] = [source |-> server.aftermarketProviders[pl[1]],
                             price |-> cinput[pl[1]][pl[2]].price]
             /\ \A qm \in ListingsFor(key) :
                  /\ cinput[qm[1]][qm[2]].price >= map[key].price
                  /\ Earlier(qm, pl) => cinput[qm[1]][qm[2]].price > map[key].price
      /\ PricesDiffer(cinput[1]) =>
           \A other \in Reordered(cinput[1]) :
             MergeAll(<<>>, server.aftermarketProviders, <<other>>, 1) = map

\* C32 witness: Shop.COM at 250, shop.com at 100 and shop.com at 100 again
\* leave one entry for shop.com at 100
C32_Witness ==
  /\ cmode = "merge" /\ Len(cinput[1]) = 3
  /\ cinput[1][1] = [domain |-> "Shop.COM", price |-> 250]
  /\ cinput[1][2] = [domain |-> "shop.com", price |-> 100]
  /\ cinput[1][3] = [domain |-> "shop.com", price |-> 100]
  /\ DOMAIN cevidence[1] = {"shop.com"}
  /\ cevidence[1]["shop.com"].price = 100

(***************************************************************************)
(* check_domain and check_bulk against lookup_domain (Spec)                *)
(***************************************************************************)
\* the HTTP outcome the check_domain call in progress merged, if it probed
CheckDomainProbed ==
  IF hist.httpRan THEN <<MkResult(hist.http, <<>>, NoHttpStatus, NoRedirectUrl)>> ELSE <<>>

\* C33: for the same registry result and the same HTTP outcome, and without a
\* listing, check_domain and each check_bulk entry built from a registry lookup
\* end with the status lookup_domain ends with: an HTTP taken replaces only
\* available, an HTTP unknown changes nothing
C33_SameMergeEverywhere ==
  /\ (tool = "check_domain" /\ hpc = "returned" /\ ~isError) =>
       hresult.status = LookupStatusFor(hist.rdapResult, FALSE, CheckDomainProbed)
  /\ (CheckBulkReplied /\ ~isError /\ ViaRegistry) =>
       \A i \in 1..Len(search.results) :
         search.results[i].status
           = LookupStatusFor(search.rdap[i].result, FALSE,
                             IF hist.httpRan THEN <<search.http[i]>> ELSE <<>>)

(***************************************************************************)
(* No request repeated after it failed (SpecRetry).                        *)
(***************************************************************************)
\* once the fetch of a hop threw, the scheme attempt it belongs to issues no
\* further request for the rest of the verifyDomain call
FailedHopEndsAttempt ==
  [][\A s \in {"https", "http"} :
       (vpc # "idle" /\ att[s].last = "error") => att'[s].calls = att[s].calls]_vars

\* C34: within one verifyDomain call no request is issued for a URL whose fetch
\* threw earlier in the same call; in particular the http:// attempt never
\* requests the URL the https:// attempt failed on.
C34_NoRequestRepeatedAfterFailure ==
  [][(vpc = "http" /\ netCalls' = netCalls + 1) => vurl # failedFetch]_vars

(***************************************************************************)
(* The registry lookups of a bulk call (SpecRdapBulk).                     *)
(***************************************************************************)
\* C35: during RdapService.checkBulk at most one registry query is in flight;
\* while the query of position i is in flight, checkDomain has returned for
\* every earlier position and one delay has elapsed after each of them; the map
\* returned has an entry for every input domain, failed queries included.
C35_RegistryLookupsSequential ==
  /\ Cardinality(inFlight) <= 1 /\ bulkHist.maxInFlight <= 1
  /\ \A i \in inFlight :
       /\ i = chunkIdx
       /\ bulkHist.settled = 1..(i - 1)
       /\ bulkHist.delays = i - 1
  /\ bulkPc = "done" =>
       \A i \in 1..Len(bulkDomains) : bulkDomains[i] \in DOMAIN results

\* a call over several domains returned, a query of it having failed and a later
\* one having been in flight
C35_Witness ==
  /\ bulkPc = "done" /\ Len(bulkDomains) >= 2
  /\ 1 \in bulkHist.failed /\ bulkHist.maxInFlight = 1
  /\ bulkHist.settled = 1..Len(bulkDomains)
  /\ \A i \in 1..Len(bulkDomains) : bulkDomains[i] \in DOMAIN results

(***************************************************************************)
(* check_bulk when the Namecheap bulk check does not deliver (Spec).       *)
(***************************************************************************)
\* C36: when Namecheap is configured and its bulk request did not deliver (the
\* request failed, the API answered an error, or no item came back), check_bulk
\* ran the registry lookups and every entry of the reply was built from them.
C36_RegistryWhenNamecheapFails ==
  (CheckBulkReplied /\ ~isError /\ server.namecheapService
     /\ search.registrar \in {"failed", "api_error", "no_items"}) =>
    /\ ViaRegistry
    /\ \A i \in 1..Len(search.results) :
         search.results[i].verificationMethod \in {"rdap", "http_check"}

(***************************************************************************)
(* What counts toward isParked and confidence (SpecClassify).              *)
(***************************************************************************)
\* the price-pattern families that have an in-band match among the quotes
InBandFamilies(quotes) ==
  {quotes[i].family : i \in {j \in 1..Len(quotes) :
                               /\ quotes[j].family # 0
                               /\ quotes[j].hundredths >= MIN_DOMAIN_PRICE * 100
                               /\ quotes[j].hundredths <= MAX_DOMAIN_PRICE * 100}}

\* the indicators the page gives rise to before the word count is looked at
Collected(page) ==
  Len(page.signature) + Len(page.phrase) + Cardinality(InBandFamilies(page.quotes))

\* the same with the minimal-content entry (the pages without running text
\* have fewer than MINIMAL_WORDS words, the others more)
Counted(page) ==
  Collected(page) + (IF page.words = 0 /\ Collected(page) > 0 THEN 1 ELSE 0)

\* C37: every appended indicator counts: the indicators are one per broker
\* signature matched, one per generic phrase matched, one per price-pattern
\* family with an in-band match and the minimal-content entry; isParked is
\* "two indicators or a broker", confidence is high with a broker and three
\* indicators, medium with two.  Hence two price families in band make a page
\* without signature and phrase parked, and so does a single phrase in a page
\* of fewer than 50 words.
C37_EveryIndicatorCounts ==
  cmode = "page" =>
    /\ Len(cevidence[1].indicators) = Counted(cinput)
    /\ cevidence[1].isParked = (Counted(cinput) >= 2 \/ cinput.signature # <<>>)
    /\ cevidence[1].confidence
         = (IF cinput.signature # <<>> /\ Counted(cinput) >= 3 THEN "high"
            ELSE IF Counted(cinput) >= 2 THEN "medium" ELSE "low")
    /\ (cinput.signature = <<>> /\ cinput.phrase = <<>>
          /\ Cardinality(InBandFamilies(cinput.quotes)) >= 2) => cevidence[1].isParked
    /\ (cinput.signature = <<>> /\ Len(cinput.phrase) = 1 /\ cinput.words = 0)
         => cevidence[1].isParked

\* a long page without signature and phrase that quotes prices of two families
\* was classified as parked on the two price entries alone
C37_Witness ==
  /\ cmode = "page" /\ cinput.words = SiteWords
  /\ cinput.signature = <<>> /\ cinput.phrase = <<>>
  /\ Cardinality(InBandFamilies(cinput.quotes)) = 2
  /\ Len(cevidence[1].indicators) = 2 /\ cevidence[1].isParked

(***************************************************************************)
(* The pricing provider of a server (Spec).                                *)
(***************************************************************************)
\* C38: the registry of a constructed server holds exactly one pricing
\* provider, tld-list when an API key is configured and porkbun otherwise; no
\* handler takes the Namecheap branch of its pricing step, and lookup_domain,
\* check_domain and search_domains never give the status premium.
C38_OnePricingProvider ==
  /\ server.pricingProviders
       = <<IF server.config.tldListApiKey # "" THEN "tld-list" ELSE "porkbun">>
  /\ hist.pricing # "namecheap"
  /\ tool \in {"lookup_domain", "check_domain"} => hresult.status # "premium"
  /\ tool = "search_domains" =>
       \A i \in 1..Len(search.results) : search.results[i].status # "premium"

\* check_domain went through its pricing step on a server that has the
\* Namecheap service and no TLD-List key
C38_Witness ==
  /\ tool = "check_domain" /\ hpc = "returned" /\ ~isError
  /\ server.namecheapService /\ server.config.tldListApiKey = ""
  /\ server.pricingProviders = <<"porkbun">>
  /\ hist.pricing \notin {"none", "namecheap", "skipped"}

(***************************************************************************)
(* The pages of an auctions search (SpecListings).                         *)
(***************************************************************************)
\* at most maxResults listings are returned
AtMostMaxResults ==
  pager.count <= pager.maxResults /\ pager.returned <= pager.maxResults

\* C39: searchListings always terminates: a call that entered its loop returns,
\* no request is sent with the params of an earlier one, and at most maxResults
\* listings are returned.
C39_SearchListingsTerminates ==
  /\ [](~pager.repeated /\ AtMostMaxResults)
  /\ (pager.pc = "loop") ~> (pager.pc = "returned")

(***************************************************************************)
(* The verification method of a reply (Spec).                              *)
(***************************************************************************)
\* the HTTP probe of the call ran and returned an outcome other than unknown
ProbeToldSomething == hist.httpRan /\ hist.http \in {"taken", "parked", "for_sale"}

\* C40: in a reply of lookup_domain or check_domain the verificationMethod is
\* http_check only when the HTTP probe returned an outcome other than unknown;
\* when the probe returned unknown or was not run it is the one the registry
\* step set.
C40_HttpCheckOnlyWhenProbeTold ==
  (tool \in {"lookup_domain", "check_domain"} /\ hpc = "returned" /\ ~isError) =>
    /\ hresult.verificationMethod = "http_check" => ProbeToldSomething
    /\ ~ProbeToldSomething => hresult.verificationMethod = "rdap"

====
